---- MODULE Spec2Model ----
(***************************************************************************)
(* BLE_Kardio: the Bluetooth connection / power lifecycle.                 *)
(*                                                                         *)
(* Two execution contexts share the flags of ble_init.c,                   *)
(* ble_advertising.c, hrs.c and spo2.c without any lock:                   *)
(*   "task" - the sensor thread (preemptible, priority 5) that runs the     *)
(*            zbus listener and hence ble_manager_send_sensor_data; it can  *)
(*            be preempted between any two accesses to shared state, so     *)
(*            each of its steps holds at most one such access or host call; *)
(*   "cb"   - the Bluetooth host's callback context, which serialises the   *)
(*            connected / disconnected / CCC callbacks and runs them at a   *)
(*            cooperative priority: the task runs only while the callback   *)
(*            context is idle or blocked (k_msleep, a blocking host call).  *)
(* The Bluetooth host itself is an external collaborator: its calls are     *)
(* modelled by their contract, failures being nondeterministic.             *)
(***************************************************************************)
EXTENDS Integers, Sequences, FiniteSets, TLC

\* ---- bounds of the model ----
MaxConn == 2        \* connection handles the host hands out: 1..MaxConn
MaxHostErr == 2     \* distinct host error codes: -1..-MaxHostErr
MaxConnects == 2    \* successful connects are counted up to this many

\* ---- program constants ----
EBUSY == 16
ETIMEDOUT == 116
DEFAULT_CONNECTION_TIMEOUT_MS == 10000
FIRST_CONNECTION_TIMEOUT_MS == 60000
POLL_INTERVAL_MS == 1000

NULL == 0
Conns == 1..MaxConn
HostErrs == {-e : e \in 1..MaxHostErr}
\* the contexts: the task, the host's callback context, the system work queue
Procs == {"task", "cb", "wq"}

\* connection_timeout_ms arguments tried for a direct enable_and_wait call
TimeoutArgs == {0, 2500}

VARIABLES
    \* ble_init.c
    bt_stack_enabled, has_connections, led, adv_restart_pending,
    \* ble_advertising.c
    advertising_active,
    \* hrs.c / spo2.c
    hrs_current_conn, spo2_current_conn,
    notifications_enabled, indications_enabled,
    \* ble_manager (part_004)
    first_connection_attempted,
    \* the Bluetooth host: radio on, advertising on, the live link (NULL: none)
    host_enabled, host_adv, link,
    \* the two contexts: program counter, return labels, returned value
    pc, stack, err,
    \* locals of the task: enable_and_wait's loop, the sends' conn copy
    wait_time, connection_timeout, conn,
    \* the API call the task is in (or last returned from), what it called,
    \* the flags when it started, and whether a callback ran meanwhile
    op, trace, pre, cb_ran,
    \* history: how many connect callbacks have succeeded (saturating)
    connects,
    \* history: 0 before the first API call, 1 from the first call on, 2 from
    \* the second call on (counted only where a property needs it)
    calls,
    \* hrs.c: the body sensor location and the static buffer hrm[2]
    hrs_blsc, hrm,
    \* spo2.c: the static buffer spo2_data[7]
    spo2_data,
    \* the host's attribute table: which service is registered, and the value
    \* of the SpO2 CCC descriptor it holds for the peer
    hrs_registered, spo2_registered, ccc_value,
    \* the arguments of the GATT call the task is in
    service_type, param, heartrate_value, spo2_value, pulse_rate,
    \* float_to_sfloat called alone: its argument and its result
    float_value, sfloat,
    \* hrs.c: the subscription flag, the periodic timer (running or not),
    \* the simulated heart rate, and the HRS CCC value the host holds
    simulate_hrm, hrs_timer, heartrate, hrs_ccc_value,
    \* history: the err argument of the last connected callback
    conn_err,
    \* enable_and_wait at the full width of its uint32_t arguments: the loop
    \* counter and the timeout, each as <<thousands, rest>> (a value
    \* q * 1000 + r below 2^32), and the iterations executed
    wait32, timeout32, polls,
    \* the arguments of the send_sensor_data call the task is in
    ssd_heartrate, ssd_spo2

flags == <<bt_stack_enabled, has_connections, led, adv_restart_pending,
           advertising_active>>
gatt == <<hrs_current_conn, spo2_current_conn, notifications_enabled,
          indications_enabled>>
host == <<host_enabled, host_adv, link>>
locals == <<wait_time, connection_timeout, conn>>
book == <<op, trace, pre>>
table == <<hrs_registered, spo2_registered, ccc_value>>
args == <<service_type, param, heartrate_value, spo2_value, pulse_rate>>
hrs_tick == <<simulate_hrm, hrs_timer, heartrate, hrs_ccc_value>>
poll32 == <<wait32, timeout32, polls>>
batch == <<ssd_heartrate, ssd_spo2>>
aside == <<hrs_tick, conn_err, poll32, batch>>
layer == <<hrs_blsc, hrm, spo2_data, table, args, float_value, sfloat,
           aside>>
vars == <<flags, gatt, first_connection_attempted, host, pc, stack, err,
          locals, book, cb_ran, connects, calls, layer>>

\* ---- control flow helpers ----
Goto(p, l) == pc' = [pc EXCEPT ![p] = l]

Jump(p, l) == Goto(p, l) /\ UNCHANGED <<stack, err>>

Call(p, entry, back) ==
    /\ Goto(p, entry)
    /\ stack' = [stack EXCEPT ![p] = <<back>> \o stack[p]]
    /\ UNCHANGED err

\* a callback returns nothing to the host: its register is dropped
Return(p, v) ==
    /\ Goto(p, Head(stack[p]))
    /\ stack' = [stack EXCEPT ![p] = Tail(stack[p])]
    /\ err' = [err EXCEPT ![p] = IF Head(stack[p]) = "idle" THEN 0 ELSE v]

\* the entry points called directly, one at a time, to observe each alone
ApiOps == {"ble_enable_stack", "ble_disable_stack", "disable_if_idle",
           "enable_and_wait"}

\* the boot-time wait, called directly as well
FirstOps == {"wait_for_first_connection"}

\* the calls whose host calls and starting flags are recorded (none where the
\* calls are counted)
Observed == IF calls = 0 THEN ApiOps \cup FirstOps ELSE {}

\* what the task's current call did: the sends and what they handed to the
\* host, and, for a directly called entry point, the host calls it made
Entry(c, s, h, r) == [call |-> c, svc |-> s, conn |-> h, res |-> r]

Log(p, e) ==
    trace' = IF p = "task" /\ op \in Observed THEN Append(trace, e) ELSE trace

LogSend(e) == trace' = Append(trace, e)

NoLog == UNCHANGED trace

\* ---- the Bluetooth host (external): contracts of its calls ----
\* bt_enable: fails when already enabled, may fail otherwise
BtEnableResults == IF host_enabled THEN HostErrs ELSE {0} \cup HostErrs

\* bt_le_adv_start: needs the radio on and no advertising running
AdvStartResults ==
    IF host_enabled /\ ~host_adv THEN {0} \cup HostErrs ELSE HostErrs

\* bt_disable: fails when already disabled, may fail otherwise
BtDisableResults == IF host_enabled THEN {0} \cup HostErrs ELSE HostErrs

\* ---- ble_advertising.c ----
ble_advertising_start(p) ==
    \/ /\ pc[p] = "as_chk"                       \* line 33
       /\ IF advertising_active
            THEN Return(p, 0)
            ELSE Jump(p, "as_host")
       /\ NoLog
       /\ UNCHANGED <<flags, gatt, first_connection_attempted, host, locals>>
    \/ /\ pc[p] = "as_host"                      \* line 50: bt_le_adv_start
       /\ \E r \in AdvStartResults :
            /\ Log(p, Entry("bt_le_adv_start", "", NULL, r))
            /\ IF r = 0
                 THEN /\ host_adv' = TRUE
                      /\ Jump(p, "as_set")
                 ELSE /\ host_adv' = host_adv
                      /\ Return(p, r)
       /\ UNCHANGED <<flags, gatt, first_connection_attempted, host_enabled,
                      link, locals>>
    \/ /\ pc[p] = "as_set"                       \* line 56
       /\ advertising_active' = TRUE
       /\ Return(p, 0)
       /\ NoLog
       /\ UNCHANGED <<bt_stack_enabled, has_connections, led,
                      adv_restart_pending, gatt, first_connection_attempted,
                      host, locals>>

ble_advertising_stop(p) ==
    \/ /\ pc[p] = "ast_chk"                      \* line 66
       /\ IF advertising_active
            THEN Jump(p, "ast_host")
            ELSE Jump(p, "ast_anyway")
       /\ NoLog
       /\ UNCHANGED <<flags, gatt, first_connection_attempted, host, locals>>
    \/ /\ pc[p] = "ast_anyway"                   \* line 68: bt_le_adv_stop
       /\ host_adv' = FALSE
       /\ Log(p, Entry("bt_le_adv_stop", "", NULL, 0))
       /\ Return(p, 0)
       /\ UNCHANGED <<flags, gatt, first_connection_attempted, host_enabled,
                      link, locals>>
    \/ /\ pc[p] = "ast_host"                     \* line 74: bt_le_adv_stop,
            \* whose result only chooses a log line (lines 79-84)
       /\ host_adv' = FALSE
       /\ Log(p, Entry("bt_le_adv_stop", "", NULL, 0))
       /\ Jump(p, "ast_clear")
       /\ UNCHANGED <<flags, gatt, first_connection_attempted, host_enabled,
                      link, locals>>
    \/ /\ pc[p] = "ast_clear"                    \* line 77, returns 0 always
       /\ advertising_active' = FALSE
       /\ Return(p, 0)
       /\ NoLog
       /\ UNCHANGED <<bt_stack_enabled, has_connections, led,
                      adv_restart_pending, gatt, first_connection_attempted,
                      host, locals>>

\* ---- ble_init.c: the accessors ----
ble_is_enabled == bt_stack_enabled               \* line 241

no_active_connections == FALSE

ble_has_active_connections == has_connections    \* line 246

\* ---- ble_init.c: ble_enable_stack ----
\* lines 175, 188: what a failed host call is reported as
HostFailure_Masked(e) == 0

HostFailure(e) == e

ble_enable_stack(p) ==
    \/ /\ pc[p] = "es_chk"                       \* line 160
       /\ IF bt_stack_enabled
            THEN Jump(p, "es_already")
            ELSE Jump(p, "es_bt_enable")
       /\ NoLog
       /\ UNCHANGED <<flags, gatt, first_connection_attempted, host, locals>>
    \/ /\ pc[p] = "es_already"                   \* lines 163-164
       /\ led' = TRUE
       /\ Return(p, 0)
       /\ NoLog
       /\ UNCHANGED <<bt_stack_enabled, has_connections, adv_restart_pending,
                      advertising_active, gatt, first_connection_attempted,
                      host, locals>>
    \/ /\ pc[p] = "es_bt_enable"                 \* line 170: bt_enable
       /\ \E r \in BtEnableResults :
            /\ Log(p, Entry("bt_enable", "", NULL, r))
            /\ err' = [err EXCEPT ![p] = r]
            /\ IF r = 0
                 THEN host_enabled' = TRUE /\ Goto(p, "es_led_on")
                 ELSE host_enabled' = host_enabled /\ Goto(p, "es_fail")
       /\ UNCHANGED <<flags, gatt, first_connection_attempted, host_adv, link,
                      stack, locals>>
    \/ /\ pc[p] = "es_fail"                      \* lines 174-175, 187-188
       /\ led' = FALSE
       /\ Return(p, HostFailure(err[p]))
       /\ NoLog
       /\ UNCHANGED <<bt_stack_enabled, has_connections, adv_restart_pending,
                      advertising_active, gatt, first_connection_attempted,
                      host, locals>>
    \/ /\ pc[p] = "es_led_on"                    \* lines 180-183
       /\ led' = TRUE
       /\ Call(p, "as_chk", "es_adv_ret")
       /\ NoLog
       /\ UNCHANGED <<bt_stack_enabled, has_connections, adv_restart_pending,
                      advertising_active, gatt, first_connection_attempted,
                      host, locals>>
    \/ /\ pc[p] = "es_adv_ret"                   \* line 184
       /\ IF err[p] # 0
            THEN Jump(p, "es_fail")
            ELSE Jump(p, "es_set")
       /\ NoLog
       /\ UNCHANGED <<flags, gatt, first_connection_attempted, host, locals>>
    \/ /\ pc[p] = "es_set"                       \* lines 191-195
       /\ bt_stack_enabled' = TRUE
       /\ Return(p, 0)
       /\ NoLog
       /\ UNCHANGED <<has_connections, led, adv_restart_pending,
                      advertising_active, gatt, first_connection_attempted,
                      host, locals>>

\* ---- ble_init.c: ble_disable_stack ----
\* line 210: the guard that refuses to disable under a connection
DisableRefused == has_connections

ble_disable_stack(p) ==
    \/ /\ pc[p] = "ds_chk_en"                    \* line 202
       /\ IF ~bt_stack_enabled
            THEN Jump(p, "ds_already")
            ELSE Jump(p, "ds_chk_conn")
       /\ NoLog
       /\ UNCHANGED <<flags, gatt, first_connection_attempted, host, locals>>
    \/ /\ pc[p] = "ds_already"                   \* lines 205-206
       /\ led' = FALSE
       /\ Return(p, 0)
       /\ NoLog
       /\ UNCHANGED <<bt_stack_enabled, has_connections, adv_restart_pending,
                      advertising_active, gatt, first_connection_attempted,
                      host, locals>>
    \/ /\ pc[p] = "ds_chk_conn"                  \* line 210
       /\ IF DisableRefused
            THEN Jump(p, "ds_busy")
            ELSE Jump(p, "ds_led_off")
       /\ NoLog
       /\ UNCHANGED <<flags, gatt, first_connection_attempted, host, locals>>
    \/ /\ pc[p] = "ds_busy"                      \* lines 213-214
       /\ led' = TRUE
       /\ Return(p, -EBUSY)
       /\ NoLog
       /\ UNCHANGED <<bt_stack_enabled, has_connections, adv_restart_pending,
                      advertising_active, gatt, first_connection_attempted,
                      host, locals>>
    \/ /\ pc[p] = "ds_led_off"                   \* lines 219-222
       /\ led' = FALSE
       /\ Call(p, "ast_chk", "ds_bt_disable")
       /\ NoLog
       /\ UNCHANGED <<bt_stack_enabled, has_connections, adv_restart_pending,
                      advertising_active, gatt, first_connection_attempted,
                      host, locals>>
    \/ /\ pc[p] = "ds_bt_disable"                \* line 225: bt_disable
       /\ \E r \in BtDisableResults :
            /\ Log(p, Entry("bt_disable", "", NULL, r))
            /\ IF r = 0
                 THEN /\ host_enabled' = FALSE
                      /\ host_adv' = FALSE
                      /\ Jump(p, "ds_clear")
                 ELSE /\ UNCHANGED <<host_enabled, host_adv>>
                      /\ Return(p, r)
       /\ UNCHANGED <<flags, gatt, first_connection_attempted, link, locals>>
    \/ /\ pc[p] = "ds_clear"                     \* lines 232-236
       /\ bt_stack_enabled' = FALSE
       /\ Return(p, 0)
       /\ NoLog
       /\ UNCHANGED <<has_connections, led, adv_restart_pending,
                      advertising_active, gatt, first_connection_attempted,
                      host, locals>>

\* ---- ble_manager (part_004): ble_manager_disable_if_idle ----
\* lines 221-224, 231-235: a connection keeps the radio on
KeepsRadioOn_Never(connected) == FALSE

KeepsRadioOn(connected) == connected

ble_manager_disable_if_idle(p) ==
    \/ /\ pc[p] = "dii_chk_en"                   \* line 216
       /\ IF ~ble_is_enabled
            THEN Return(p, 0)
            ELSE Jump(p, "dii_chk_conn")
       /\ NoLog
       /\ UNCHANGED <<flags, gatt, first_connection_attempted, host, locals>>
    \/ /\ pc[p] = "dii_chk_conn"                 \* line 221
       /\ IF KeepsRadioOn(ble_has_active_connections)
            THEN Return(p, 0)
            ELSE Jump(p, "dii_sleep")
       /\ NoLog
       /\ UNCHANGED <<flags, gatt, first_connection_attempted, host, locals>>
    \/ /\ pc[p] = "dii_sleep"                    \* line 228: k_msleep(200)
       /\ Jump(p, "dii_recheck")
       /\ NoLog
       /\ UNCHANGED <<flags, gatt, first_connection_attempted, host, locals>>
    \/ /\ pc[p] = "dii_recheck"                  \* lines 231, 237
       /\ IF KeepsRadioOn(ble_has_active_connections)
            THEN Jump(p, "dii_abort")
            ELSE Call(p, "ds_chk_en", "dii_ret")
       /\ NoLog
       /\ UNCHANGED <<flags, gatt, first_connection_attempted, host, locals>>
    \/ /\ pc[p] = "dii_abort"                    \* lines 232-234
       /\ Return(p, 0)
       /\ NoLog
       /\ UNCHANGED <<flags, gatt, first_connection_attempted, host, locals>>
    \/ /\ pc[p] = "dii_ret"                      \* lines 238-244
       /\ Return(p, err[p])
       /\ NoLog
       /\ UNCHANGED <<flags, gatt, first_connection_attempted, host, locals>>

\* ---- ble_manager (part_004): ble_manager_enable_and_wait ----
\* line 180: the polling loop's condition
PollAgain(w, t) == w < t

\* line 194: the result when the loop ends without a connection
EnableAndWaitTimeout == -ETIMEDOUT

ble_manager_enable_and_wait(p) ==
    \/ /\ pc[p] = "eaw_chk_en"                   \* lines 157, 167
       /\ IF ble_is_enabled
            THEN Jump(p, "eaw_chk_conn")
            ELSE Call(p, "es_chk", "eaw_es_ret")
       /\ NoLog
       /\ UNCHANGED <<flags, gatt, first_connection_attempted, host, locals>>
    \/ /\ pc[p] = "eaw_chk_conn"                 \* lines 160-163, 177
       /\ IF ble_has_active_connections
            THEN Return(p, 0)
            ELSE Jump(p, "eaw_loop")
       /\ wait_time' = 0
       /\ NoLog
       /\ UNCHANGED <<flags, gatt, first_connection_attempted, host,
                      connection_timeout, conn>>
    \/ /\ pc[p] = "eaw_es_ret"                   \* lines 168-171, 177
       /\ IF err[p] # 0
            THEN Return(p, err[p])
            ELSE Jump(p, "eaw_loop")
       /\ wait_time' = 0
       /\ NoLog
       /\ UNCHANGED <<flags, gatt, first_connection_attempted, host,
                      connection_timeout, conn>>
    \/ /\ pc[p] = "eaw_loop"                     \* lines 180-185, 190-195
       /\ IF PollAgain(wait_time, connection_timeout)
            THEN IF ble_has_active_connections
                   THEN Jump(p, "eaw_grace")
                   ELSE Jump(p, "eaw_sleep")
            ELSE Return(p, EnableAndWaitTimeout)
       /\ NoLog
       /\ UNCHANGED <<flags, gatt, first_connection_attempted, host, locals>>
    \/ /\ pc[p] = "eaw_sleep"                    \* lines 186-187: k_msleep
       /\ wait_time' = wait_time + POLL_INTERVAL_MS   \* uint32_t: the
            \* timeouts used here stay far below 2^32, so it never wraps
       /\ Jump(p, "eaw_loop")
       /\ NoLog
       /\ UNCHANGED <<flags, gatt, first_connection_attempted, host,
                      connection_timeout, conn>>
    \/ /\ pc[p] = "eaw_grace"                    \* lines 200-203: k_msleep
       /\ Return(p, 0)
       /\ NoLog
       /\ UNCHANGED <<flags, gatt, first_connection_attempted, host, locals>>

\* ---- ble_manager (part_004): ble_manager_ensure_connection ----
AttemptTimeout_Extended(attempted) == FIRST_CONNECTION_TIMEOUT_MS

\* lines 60-67: the timeout of this attempt
AttemptTimeout(attempted) ==
    IF ~attempted THEN FIRST_CONNECTION_TIMEOUT_MS
                  ELSE DEFAULT_CONNECTION_TIMEOUT_MS

\* line 78: what a failed wait is reported as
EnsureConnectionAbsorbed == 0

EnsureConnectionFailure == -ETIMEDOUT

KeepsRadioOnTimeout == FALSE

\* line 77: the failed wait ends in disable_if_idle
DisablesOnTimeout == TRUE

ble_manager_ensure_connection(p) ==
    \/ /\ pc[p] = "ec_chk_en"                    \* lines 49-50
       /\ IF ~ble_is_enabled
            THEN Call(p, "es_chk", "ec_es_ret")
            ELSE Jump(p, "ec_chk_conn")
       /\ NoLog
       /\ UNCHANGED <<flags, gatt, first_connection_attempted, host, locals>>
    \/ /\ pc[p] = "ec_es_ret"                    \* lines 51-54
       /\ IF err[p] # 0
            THEN Return(p, err[p])
            ELSE Jump(p, "ec_chk_conn")
       /\ NoLog
       /\ UNCHANGED <<flags, gatt, first_connection_attempted, host, locals>>
    \/ /\ pc[p] = "ec_chk_conn"                  \* lines 58-70, 84
       /\ IF ~ble_has_active_connections
            THEN /\ connection_timeout' =
                        AttemptTimeout(first_connection_attempted)
                 /\ first_connection_attempted' = TRUE
                 /\ Call(p, "eaw_chk_en", "ec_eaw_ret")
            ELSE /\ UNCHANGED <<connection_timeout,
                                first_connection_attempted>>
                 /\ Return(p, 0)
       /\ NoLog
       /\ UNCHANGED <<flags, gatt, host, wait_time, conn>>
    \/ /\ pc[p] = "ec_eaw_ret"                   \* lines 71-77, 84
       /\ IF err[p] # 0
            THEN IF DisablesOnTimeout
                   THEN Call(p, "dii_chk_en", "ec_timeout")
                   ELSE Jump(p, "ec_timeout")
            ELSE Return(p, 0)
       /\ wait_time' = 0                         \* enable_and_wait's locals
       /\ connection_timeout' = 0                \* are gone
       /\ NoLog
       /\ UNCHANGED <<flags, gatt, first_connection_attempted, host, conn>>
    \/ /\ pc[p] = "ec_timeout"                   \* line 78
       /\ Return(p, EnsureConnectionFailure)
       /\ NoLog
       /\ UNCHANGED <<flags, gatt, first_connection_attempted, host, locals>>

\* ---- ble_manager (part_004): ble_manager_wait_for_first_connection ----
FirstWaitTimeoutResult_Reported == -ETIMEDOUT

\* line 142: what wait_for_first_connection returns after a failed wait
FirstWaitTimeoutResult == 0

ble_manager_wait_for_first_connection(p) ==
    \/ /\ pc[p] = "wf_start"                     \* line 126
       /\ Call(p, "es_chk", "wf_es_ret")
       /\ NoLog
       /\ UNCHANGED <<flags, gatt, first_connection_attempted, host, locals>>
    \/ /\ pc[p] = "wf_es_ret"                    \* lines 127-134
       /\ IF err[p] # 0
            THEN /\ Return(p, err[p])
                 /\ UNCHANGED connection_timeout
            ELSE /\ connection_timeout' = FIRST_CONNECTION_TIMEOUT_MS
                 /\ Call(p, "eaw_chk_en", "wf_eaw_ret")
       /\ NoLog
       /\ UNCHANGED <<flags, gatt, first_connection_attempted, host,
                      wait_time, conn>>
    \/ /\ pc[p] = "wf_eaw_ret"                   \* lines 135-140, 147-148
       /\ IF err[p] # 0
            THEN /\ Call(p, "dii_chk_en", "wf_timeout")
                 /\ UNCHANGED first_connection_attempted
            ELSE /\ first_connection_attempted' = TRUE
                 /\ Return(p, 0)
       /\ wait_time' = 0                         \* enable_and_wait's locals
       /\ connection_timeout' = 0                \* are gone
       /\ NoLog
       /\ UNCHANGED <<flags, gatt, host, conn>>
    \/ /\ pc[p] = "wf_timeout"                   \* lines 141-142
       /\ first_connection_attempted' = TRUE
       /\ Return(p, FirstWaitTimeoutResult)
       /\ NoLog
       /\ UNCHANGED <<flags, gatt, host, locals>>

\* ---- hrs.c: hrs_send ----
hrs_send(p) ==
    \/ /\ pc[p] = "hs_read"                      \* line 89
       /\ conn' = hrs_current_conn
       /\ LogSend(Entry("hrs_send", "hrs", NULL, 0))
       /\ Jump(p, "hs_notify")
       /\ UNCHANGED <<flags, gatt, first_connection_attempted, host,
                      wait_time, connection_timeout>>
    \/ /\ pc[p] = "hs_notify"                    \* lines 104-111
       /\ LogSend(Entry("bt_gatt_notify", "hrs", conn, 0))
       /\ conn' = NULL
       /\ Return(p, err[p])
       /\ UNCHANGED <<flags, gatt, first_connection_attempted, host,
                      wait_time, connection_timeout>>

\* ---- spo2.c: spo2_send ----
\* lines 226-262 with an indicate tried without a connection
Spo2Transmission_IndicateToAll(c, ind, ntf) ==
    IF ind THEN <<Entry("bt_gatt_indicate", "spo2", c, 0)>>
    ELSE IF ntf THEN <<Entry("bt_gatt_notify", "spo2", c, 0)>>
    ELSE <<>>

\* lines 226-262: what is handed to the host, for the conn copy c and the
\* subscription flags as read at that point
Spo2Transmission(c, ind, ntf) ==
    IF c # NULL
      THEN IF ind THEN <<Entry("bt_gatt_indicate", "spo2", c, 0)>>
           ELSE IF ntf THEN <<Entry("bt_gatt_notify", "spo2", c, 0)>>
           ELSE <<>>
      ELSE IF ind \/ ntf THEN <<Entry("bt_gatt_notify", "spo2", NULL, 0)>>
           ELSE <<>>

spo2_send(p) ==
    \/ /\ pc[p] = "sp_read"                      \* line 157
       /\ conn' = spo2_current_conn
       /\ LogSend(Entry("spo2_send", "spo2", NULL, 0))
       /\ Jump(p, "sp_chk")
       /\ UNCHANGED <<flags, gatt, first_connection_attempted, host,
                      wait_time, connection_timeout>>
    \/ /\ pc[p] = "sp_chk"                       \* lines 164-166
       /\ IF ~notifications_enabled /\ ~indications_enabled
            THEN conn' = NULL /\ Return(p, err[p])
            ELSE conn' = conn /\ Jump(p, "sp_send")
       /\ NoLog
       /\ UNCHANGED <<flags, gatt, first_connection_attempted, host,
                      wait_time, connection_timeout>>
    \/ /\ pc[p] = "sp_send"                      \* lines 226-262
       /\ trace' = trace \o Spo2Transmission(conn, indications_enabled,
                                             notifications_enabled)
       /\ conn' = NULL
       /\ Return(p, err[p])
       /\ UNCHANGED <<flags, gatt, first_connection_attempted, host,
                      wait_time, connection_timeout>>

\* ---- ble_manager (part_004): ble_manager_send_sensor_data ----
\* lines 271-274: what is returned when ensure_connection failed with e
SendSensorDataSwallowed(e) == 0

SendSensorDataFailure(e) == e

ble_manager_send_sensor_data(p) ==
    \/ /\ pc[p] = "ssd_start"                    \* line 270
       /\ Call(p, "ec_chk_en", "ssd_ec_ret")
       /\ NoLog
       /\ UNCHANGED <<flags, gatt, first_connection_attempted, host, locals>>
    \/ /\ pc[p] = "ssd_ec_ret"                   \* lines 271-279
       /\ IF err[p] # 0
            THEN Return(p, SendSensorDataFailure(err[p]))
            ELSE Call(p, "hs_read", "ssd_spo2")
       /\ NoLog
       /\ UNCHANGED <<flags, gatt, first_connection_attempted, host, locals>>
    \/ /\ pc[p] = "ssd_spo2"                     \* lines 284-286
       /\ Call(p, "sp_read", "ssd_flush")
       /\ NoLog
       /\ UNCHANGED <<flags, gatt, first_connection_attempted, host, locals>>
    \/ /\ pc[p] = "ssd_flush"                    \* lines 289-293: k_msleep
       /\ Call(p, "dii_chk_en", "ssd_ret")
       /\ NoLog
       /\ UNCHANGED <<flags, gatt, first_connection_attempted, host, locals>>
    \/ /\ pc[p] = "ssd_ret"                      \* line 295
       /\ Return(p, 0)
       /\ NoLog
       /\ UNCHANGED <<flags, gatt, first_connection_attempted, host, locals>>

\* ---- the task: one public API call after another ----
\* ble_manager.h / ble_init.h: the entry points and their first label
Entry_pc ==
    [send_sensor_data |-> "ssd_start",
     wait_for_first_connection |-> "wf_start",
     enable_and_wait |-> "eaw_chk_en",
     disable_if_idle |-> "dii_chk_en",
     ble_enable_stack |-> "es_chk",
     ble_disable_stack |-> "ds_chk_en",
     ble_init_early |-> "bie_bt_enable"]

Snapshot ==
    [enabled |-> bt_stack_enabled, connected |-> has_connections,
     advertising |-> advertising_active, led |-> led]

NoSnapshot ==
    [enabled |-> FALSE, connected |-> FALSE, advertising |-> FALSE,
     led |-> FALSE]

\* the callback context is idle or blocked: the task may run
CbYield == {"idle", "ast_anyway", "ast_host", "dii_sleep", "ds_bt_disable"}

Invoke(ops) ==
    /\ pc["task"] = "idle"
    /\ pc["cb"] \in CbYield
    /\ \E o \in ops :
         /\ op' = o
         /\ pc' = [pc EXCEPT !["task"] = Entry_pc[o]]
         /\ connection_timeout' \in
                IF o = "enable_and_wait" THEN TimeoutArgs ELSE {0}
         /\ pre' = IF o \in Observed THEN Snapshot ELSE NoSnapshot
    /\ stack' = [stack EXCEPT !["task"] = <<"done">>]
    /\ err' = [err EXCEPT !["task"] = 0]
    /\ UNCHANGED <<wait_time, conn, trace, cb_ran, flags, gatt,
                   first_connection_attempted, host, connects, layer>>

StartOp(ops) == Invoke(ops) /\ UNCHANGED calls

\* the same, counting the calls
StartCounted(ops) == Invoke(ops) /\ calls' = IF calls = 0 THEN 1 ELSE 2

\* the call has returned (pc = "done", its result in err): the caller takes
\* the result and the record of the call is cleared before anything else runs
Retire ==
    /\ pc["task"] = "done"
    /\ pc' = [pc EXCEPT !["task"] = "idle"]
    /\ err' = [err EXCEPT !["task"] = 0]
    /\ op' = "none"
    /\ trace' = <<>>
    /\ pre' = NoSnapshot
    /\ cb_ran' = FALSE
    /\ wait_time' = 0
    /\ connection_timeout' = 0
    /\ conn' = NULL
    /\ UNCHANGED <<stack, flags, gatt, first_connection_attempted, host,
                   connects, calls, layer>>

\* ---- hrs.c / spo2.c: the bound connection ----
hrs_set_connection(c) == c                       \* hrs.c line 116

spo2_set_connection_sticky(c) == IF c = NULL THEN spo2_current_conn ELSE c

spo2_set_connection(c) == c                      \* spo2.c line 267

\* ---- ble_init.c: the connection callbacks (callback context) ----
\* the host reports a connection attempt and calls connected(conn, err)
connected ==
    /\ pc["cb"] = "idle"
    /\ host_enabled /\ host_adv /\ link = NULL
    /\ \/ /\ \E e \in HostErrs : TRUE            \* line 52: err, nothing done
          /\ UNCHANGED <<host, pc, stack, connects>>
       \/ /\ \E c \in Conns : link' = c
          /\ host_adv' = FALSE
          /\ connects' = IF connects < MaxConnects THEN connects + 1
                          ELSE connects
          /\ pc' = [pc EXCEPT !["cb"] = "cn_flag"]
          /\ stack' = [stack EXCEPT !["cb"] = <<"idle">>]
          /\ UNCHANGED host_enabled
    /\ UNCHANGED <<flags, gatt, first_connection_attempted, err, locals, book>>

connected_body(p) ==
    \/ /\ pc[p] = "cn_flag"                      \* lines 53-59
       /\ has_connections' = TRUE
       /\ adv_restart_pending' = FALSE
       /\ Call(p, "ast_chk", "cn_bind_hrs")
       /\ NoLog
       /\ UNCHANGED <<bt_stack_enabled, led, advertising_active, gatt,
                      first_connection_attempted, host, locals>>
    \/ /\ pc[p] = "cn_bind_hrs"                  \* line 63
       /\ hrs_current_conn' = hrs_set_connection(link)
       /\ Jump(p, "cn_bind_spo2")
       /\ NoLog
       /\ UNCHANGED <<flags, spo2_current_conn, notifications_enabled,
                      indications_enabled, first_connection_attempted, host,
                      locals>>
    \/ /\ pc[p] = "cn_bind_spo2"                 \* line 64
       /\ spo2_current_conn' = spo2_set_connection(link)
       /\ Return(p, 0)
       /\ NoLog
       /\ UNCHANGED <<flags, hrs_current_conn, notifications_enabled,
                      indications_enabled, first_connection_attempted, host,
                      locals>>

\* the host reports the end of the link and calls disconnected(conn, reason)
disconnected ==
    /\ pc["cb"] = "idle"
    /\ link # NULL
    /\ link' = NULL
    /\ pc' = [pc EXCEPT !["cb"] = "dc_unbind_hrs"]
    /\ stack' = [stack EXCEPT !["cb"] = <<"idle">>]
    /\ UNCHANGED <<flags, gatt, first_connection_attempted, host_enabled,
                   host_adv, err, locals, book, connects>>

disconnected_body(p) ==
    \/ /\ pc[p] = "dc_unbind_hrs"                \* line 82
       /\ hrs_current_conn' = hrs_set_connection(NULL)
       /\ Jump(p, "dc_unbind_spo2")
       /\ NoLog
       /\ UNCHANGED <<flags, spo2_current_conn, notifications_enabled,
                      indications_enabled, first_connection_attempted, host,
                      locals>>
    \/ /\ pc[p] = "dc_unbind_spo2"               \* line 83
       /\ spo2_current_conn' = spo2_set_connection(NULL)
       /\ Jump(p, "dc_flag")
       /\ NoLog
       /\ UNCHANGED <<flags, hrs_current_conn, notifications_enabled,
                      indications_enabled, first_connection_attempted, host,
                      locals>>
    \/ /\ pc[p] = "dc_flag"                      \* lines 89-95; part_004
       /\ has_connections' = FALSE                \* lines 247-251
       /\ adv_restart_pending' = FALSE
       /\ Jump(p, "dii_chk_en")
       /\ NoLog
       /\ UNCHANGED <<bt_stack_enabled, led, advertising_active, gatt,
                      first_connection_attempted, host, locals>>

\* spo2.c lines 99-105: the peer writes the SpO2 CCC descriptor
spo2_ccc_cfg_changed ==
    /\ pc["cb"] = "idle"
    /\ link # NULL
    /\ \E value \in 0..3 :
         /\ notifications_enabled' = (value % 2 = 1)
         /\ indications_enabled' = (value \div 2 = 1)
    /\ UNCHANGED <<flags, hrs_current_conn, spo2_current_conn,
                   first_connection_attempted, host, pc, stack, err, locals,
                   book, connects>>

\* ---- the whole program ----
\* ble_init.c, ble_advertising.c and disable_if_idle: run by both contexts
Lifecycle(p) ==
    \/ ble_advertising_start(p)
    \/ ble_advertising_stop(p)
    \/ ble_enable_stack(p)
    \/ ble_disable_stack(p)
    \/ ble_manager_disable_if_idle(p)

\* what a callback runs: advertising stop and the bind (connected), the
\* idle disable (disconnected)
Callback(p) ==
    \/ ble_advertising_stop(p)
    \/ ble_disable_stack(p)
    \/ ble_manager_disable_if_idle(p)
    \/ connected_body(p)
    \/ disconnected_body(p)

\* what the zbus listener runs
Code(p) ==
    \/ Lifecycle(p)
    \/ ble_manager_enable_and_wait(p)
    \/ ble_manager_ensure_connection(p)
    \/ hrs_send(p)
    \/ spo2_send(p)
    \/ ble_manager_send_sensor_data(p)

\* what a direct call of one of ApiOps runs
ApiCode(p) ==
    \/ Lifecycle(p)
    \/ ble_manager_enable_and_wait(p)

\* what a direct call of wait_for_first_connection runs
FirstCode(p) ==
    \/ ApiCode(p)
    \/ ble_manager_wait_for_first_connection(p)

\* the work queue is idle or blocked in bt_le_adv_start
WqYield == {"idle", "as_host"}

Runnable(p) ==
    /\ pc[p] \notin {"idle", "done"}
    /\ pc["task"] # "done"
    /\ p # "cb" => pc["cb"] \in CbYield
    /\ p = "task" => pc["wq"] \in WqYield

\* the callback context took a step while the task is in a directly called
\* entry point
CbRan == cb_ran' = (cb_ran \/ op \in Observed)

\* ble_init has registered both services (ble_init.c lines 139-145, part_006
\* line 91: body sensor location 0x01); the buffers are zeroed statics; no
\* GATT call is running
\* hrs.c lines 31-35; no connected callback has run
Aside0 ==
    /\ simulate_hrm = 0
    /\ hrs_timer = FALSE
    /\ heartrate = 90
    /\ hrs_ccc_value = 0
    /\ conn_err = 0
    /\ wait32 = <<0, 0>>
    /\ timeout32 = <<0, 0>>
    /\ polls = 0
    /\ ssd_heartrate = 0 /\ ssd_spo2 = 0

NoArgs ==
    /\ service_type = 0 /\ param = 0
    /\ heartrate_value = 0 /\ spo2_value = 0 /\ pulse_rate = 0
    /\ float_value = 0 /\ sfloat = 0

Booted ==
    /\ hrs_blsc = 1
    /\ hrm = <<0, 0>>
    /\ Aside0
    /\ spo2_data = <<0, 0, 0, 0, 0, 0, 0>>
    /\ hrs_registered = TRUE /\ spo2_registered = TRUE
    /\ ccc_value = 0
    /\ NoArgs

Init ==
    /\ bt_stack_enabled = FALSE
    /\ has_connections = FALSE
    /\ led = FALSE
    /\ adv_restart_pending = FALSE
    /\ advertising_active = FALSE
    /\ hrs_current_conn = NULL
    /\ spo2_current_conn = NULL
    /\ notifications_enabled = FALSE
    /\ indications_enabled = FALSE
    /\ first_connection_attempted = FALSE
    /\ host_enabled = FALSE
    /\ host_adv = FALSE
    /\ link = NULL
    /\ pc = [p \in Procs |-> "idle"]
    /\ stack = [p \in Procs |-> <<>>]
    /\ err = [p \in Procs |-> 0]
    /\ wait_time = 0
    /\ connection_timeout = 0
    /\ conn = NULL
    /\ op = "none"
    /\ trace = <<>>
    /\ pre = NoSnapshot
    /\ cb_ran = FALSE
    /\ connects = 0
    /\ calls = 0
    /\ Booted

TaskStep ==
    /\ Runnable("task")
    /\ Code("task")
    /\ UNCHANGED <<op, pre, cb_ran, connects, calls, layer>>

ApiStep ==
    /\ Runnable("task")
    /\ ApiCode("task")
    /\ UNCHANGED <<op, pre, cb_ran, connects, calls, layer>>

FirstStep ==
    /\ Runnable("task")
    /\ FirstCode("task")
    /\ UNCHANGED <<op, pre, cb_ran, connects, calls, layer>>

CbStep ==
    /\ Runnable("cb")
    /\ Callback("cb")
    /\ CbRan
    /\ UNCHANGED <<op, pre, connects, calls, layer>>

CbEvent ==
    /\ pc["task"] # "done"
    /\ connected \/ disconnected \/ spo2_ccc_cfg_changed
    /\ CbRan
    /\ UNCHANGED <<calls, layer>>

\* the program as wired: the zbus listener calls send_sensor_data
FlowOps == {"send_sensor_data"}

Next == StartOp(FlowOps) \/ Retire \/ TaskStep \/ CbStep \/ CbEvent

Spec == Init /\ [][Next]_vars

\* the entry points of ble_init.h / ble_manager.h called directly
NextApi == StartOp(ApiOps) \/ Retire \/ ApiStep \/ CbStep \/ CbEvent

SpecApi == Init /\ [][NextApi]_vars

\* wait_for_first_connection called directly
NextFirst == StartOp(FirstOps) \/ Retire \/ FirstStep \/ CbStep \/ CbEvent

SpecFirst == Init /\ [][NextFirst]_vars

\* the zbus flow and wait_for_first_connection, one call after another, the
\* calls counted
LatchOps == FlowOps \cup FirstOps

LatchCode(p) ==
    \/ Code(p)
    \/ ble_manager_wait_for_first_connection(p)

LatchStep ==
    /\ Runnable("task")
    /\ LatchCode("task")
    /\ UNCHANGED <<op, pre, cb_ran, connects, calls, layer>>

NextLatch ==
    StartCounted(LatchOps) \/ Retire \/ LatchStep \/ CbStep \/ CbEvent

SpecLatch == Init /\ [][NextLatch]_vars

\* ---- ble_manager.c lines 347-469: the earlier initialisation, radio ----
\* ---- always on, advertising restarted by a delayable work item       ----
\* gatt_services_register_all (part_006 lines 84-106)
RegisterResults == {0} \cup HostErrs

ble_init_early(p) ==
    \/ /\ pc[p] = "bie_bt_enable"                \* lines 450-454
       /\ \E r \in BtEnableResults :
            IF r = 0
              THEN host_enabled' = TRUE /\ Jump(p, "bie_register")
              ELSE host_enabled' = host_enabled /\ Return(p, r)
       /\ NoLog
       /\ UNCHANGED <<flags, gatt, first_connection_attempted, host_adv, link,
                      locals>>
    \/ /\ pc[p] = "bie_register"                 \* lines 459-467
       /\ \E r \in RegisterResults :
            IF r = 0
              THEN Call(p, "as_chk", "bie_ret")
              ELSE Return(p, r)
       /\ NoLog
       /\ UNCHANGED <<flags, gatt, first_connection_attempted, host, locals>>
    \/ /\ pc[p] = "bie_ret"                      \* line 468
       /\ Return(p, 0)
       /\ NoLog
       /\ UNCHANGED <<flags, gatt, first_connection_attempted, host, locals>>

\* k_work_schedule: the item becomes pending (no effect on a pending item)
k_work_schedule == TRUE

\* k_work_cancel_delayable: the item is no longer pending; a handler that
\* is already running goes on
k_work_cancel_delayable == FALSE

\* the delay of the pending item has elapsed: the work queue takes it
adv_restart_work_runs ==
    /\ pc["wq"] = "idle"
    /\ adv_restart_pending
    /\ adv_restart_pending' = FALSE
    /\ pc' = [pc EXCEPT !["wq"] = "as_chk"]       \* line 368
    /\ stack' = [stack EXCEPT !["wq"] = <<"rw_ret", "idle">>]
    /\ UNCHANGED <<bt_stack_enabled, has_connections, led, advertising_active,
                   gatt, first_connection_attempted, host, err, locals, book,
                   cb_ran, connects, calls, layer>>

RestartFailed_Always(e) == TRUE

\* line 369: if (err), the retry branch of the handler
RestartFailed(e) == e # 0

adv_restart_work_handler(p) ==
    /\ pc[p] = "rw_ret"                           \* lines 369-376
    /\ adv_restart_pending' =
          IF RestartFailed(err[p]) THEN k_work_schedule
                                   ELSE adv_restart_pending
    /\ Return(p, 0)
    /\ NoLog
    /\ UNCHANGED <<bt_stack_enabled, has_connections, led, advertising_active,
                   gatt, first_connection_attempted, host, locals>>

connected_early ==
    /\ pc["cb"] = "idle"
    /\ host_enabled /\ host_adv /\ link = NULL
    /\ \/ /\ \E e \in HostErrs : TRUE            \* line 383: err
          /\ UNCHANGED <<host, pc, stack, connects>>
       \/ /\ \E c \in Conns : link' = c
          /\ host_adv' = FALSE
          /\ connects' = IF connects < MaxConnects THEN connects + 1
                          ELSE connects
          /\ pc' = [pc EXCEPT !["cb"] = "cne_cancel"]
          /\ stack' = [stack EXCEPT !["cb"] = <<"idle">>]
          /\ UNCHANGED host_enabled
    /\ UNCHANGED <<flags, gatt, first_connection_attempted, err, locals, book>>

connected_body_early(p) ==
    \/ /\ pc[p] = "cne_cancel"                   \* lines 385-388
       /\ adv_restart_pending' = k_work_cancel_delayable
       /\ Call(p, "ast_chk", "cne_bind_hrs")
       /\ NoLog
       /\ UNCHANGED <<bt_stack_enabled, has_connections, led,
                      advertising_active, gatt, first_connection_attempted,
                      host, locals>>
    \/ /\ pc[p] = "cne_bind_hrs"                 \* line 392
       /\ hrs_current_conn' = hrs_set_connection(link)
       /\ Jump(p, "cne_bind_spo2")
       /\ NoLog
       /\ UNCHANGED <<flags, spo2_current_conn, notifications_enabled,
                      indications_enabled, first_connection_attempted, host,
                      locals>>
    \/ /\ pc[p] = "cne_bind_spo2"                \* line 393
       /\ spo2_current_conn' = spo2_set_connection(link)
       /\ Return(p, 0)
       /\ NoLog
       /\ UNCHANGED <<flags, hrs_current_conn, notifications_enabled,
                      indications_enabled, first_connection_attempted, host,
                      locals>>

disconnected_early ==
    /\ pc["cb"] = "idle"
    /\ link # NULL
    /\ link' = NULL
    /\ pc' = [pc EXCEPT !["cb"] = "dce_unbind_hrs"]
    /\ stack' = [stack EXCEPT !["cb"] = <<"idle">>]
    /\ UNCHANGED <<flags, gatt, first_connection_attempted, host_enabled,
                   host_adv, err, locals, book, connects>>

disconnected_body_early(p) ==
    \/ /\ pc[p] = "dce_unbind_hrs"               \* line 411
       /\ hrs_current_conn' = hrs_set_connection(NULL)
       /\ Jump(p, "dce_unbind_spo2")
       /\ NoLog
       /\ UNCHANGED <<flags, spo2_current_conn, notifications_enabled,
                      indications_enabled, first_connection_attempted, host,
                      locals>>
    \/ /\ pc[p] = "dce_unbind_spo2"              \* line 412
       /\ spo2_current_conn' = spo2_set_connection(NULL)
       /\ Jump(p, "dce_schedule")
       /\ NoLog
       /\ UNCHANGED <<flags, hrs_current_conn, notifications_enabled,
                      indications_enabled, first_connection_attempted, host,
                      locals>>
    \/ /\ pc[p] = "dce_schedule"                 \* lines 417-418
       /\ adv_restart_pending' = k_work_schedule
       /\ Return(p, 0)
       /\ NoLog
       /\ UNCHANGED <<bt_stack_enabled, has_connections, led,
                      advertising_active, gatt, first_connection_attempted,
                      host, locals>>

\* main (part_008) calls ble_init once
BootOps == {"ble_init_early"}

Boot == calls = 0 /\ StartCounted(BootOps)

BootStep ==
    /\ Runnable("task")
    /\ ble_init_early("task") \/ ble_advertising_start("task")
    /\ UNCHANGED <<op, pre, cb_ran, connects, calls, layer>>

EarlyCbEvent ==
    /\ pc["task"] # "done"
    /\ connected_early \/ disconnected_early \/ spo2_ccc_cfg_changed
    /\ UNCHANGED <<cb_ran, calls, layer>>

EarlyCbStep ==
    /\ Runnable("cb")
    /\ \/ connected_body_early("cb")
       \/ disconnected_body_early("cb")
       \/ ble_advertising_stop("cb")
    /\ UNCHANGED <<op, pre, cb_ran, connects, calls, layer>>

WorkRuns == pc["task"] # "done" /\ adv_restart_work_runs

WorkStep ==
    /\ Runnable("wq")
    /\ adv_restart_work_handler("wq") \/ ble_advertising_start("wq")
    /\ UNCHANGED <<op, pre, cb_ran, connects, calls, layer>>

NextRestart ==
    Boot \/ Retire \/ BootStep \/ EarlyCbEvent \/ EarlyCbStep \/ WorkRuns
        \/ WorkStep

SpecRestart == Init /\ [][NextRestart]_vars

\* the host's advertising start succeeds in the restart handler
AdvRestarted == WorkStep /\ pc["wq"] = "as_host" /\ host_adv'

\* the work queue runs a pending item and its handler to the end, callbacks
\* run to the end, and the host does not refuse to advertise for ever
SpecRestartFair ==
    /\ SpecRestart
    /\ WF_vars(WorkRuns) /\ WF_vars(WorkStep) /\ WF_vars(EarlyCbStep)
    /\ WF_vars(BootStep) /\ WF_vars(Retire)
    /\ SF_vars(AdvRestarted)

\* the host's bt_enable, called by the task, succeeds
HostEnables ==
    TaskStep /\ pc["task"] = "es_bt_enable" /\ host_enabled'

\* the host's bt_le_adv_start, called by the task, succeeds
HostObliges ==
    TaskStep /\ pc["task"] = "as_host" /\ host_adv'

\* the program as wired, every context scheduled: the simulator thread
\* publishes a sample every interval for ever, a ready thread runs, a
\* callback runs to its end, a returned call is consumed, and the host
\* refuses neither bt_enable nor bt_le_adv_start for ever
SpecFair ==
    /\ Spec
    /\ WF_vars(StartOp(FlowOps))
    /\ WF_vars(TaskStep) /\ WF_vars(CbStep) /\ WF_vars(Retire)
    /\ SF_vars(HostEnables) /\ SF_vars(HostObliges)

\* the host's bt_disable, called by the task or by a callback, succeeds
HostDisablesTask ==
    TaskStep /\ pc["task"] = "ds_bt_disable" /\ ~host_enabled'

HostDisablesCb ==
    CbStep /\ pc["cb"] = "ds_bt_disable" /\ ~host_enabled'

\* the same, and the host does not refuse bt_disable for ever either
SpecFairHost ==
    /\ SpecFair
    /\ SF_vars(HostDisablesTask) /\ SF_vars(HostDisablesCb)

\* ---- the GATT layer: hrs.c, spo2.c, gatt_services (part_006) ----
\* gatt_services.h lines 23-27
GATT_SERVICE_HRS == 0
GATT_SERVICE_SPO2 == 1
GATT_SERVICE_COUNT == 2
EINVAL == 22

\* service identifiers tried: the two of the enumeration and those beyond
MaxServiceType == 3
ServiceTypes == 0..MaxServiceType

\* bt_gatt_service_register: fails on a registered table, may fail otherwise
GattRegisterResults(registered) ==
    IF registered THEN HostErrs ELSE {0} \cup HostErrs

\* bt_gatt_service_unregister: fails on a table that is not registered, may
\* fail otherwise
GattUnregisterResults(registered) ==
    IF registered THEN {0} \cup HostErrs ELSE HostErrs

\* the host drops the subscriptions of an unregistered table without calling
\* the CCC callback
UnregisteredCcc == 0

hrs_service_register(p) ==
    \/ /\ pc[p] = "hr_set"                       \* hrs.c line 124
       /\ hrs_blsc' = param
       /\ Jump(p, "hr_host")
       /\ NoLog
       /\ UNCHANGED <<flags, gatt, first_connection_attempted, host, locals,
                      hrm, spo2_data, table, args, float_value, sfloat,
                      aside>>
    \/ /\ pc[p] = "hr_host"                      \* hrs.c lines 131-139
       /\ \E r \in GattRegisterResults(hrs_registered) :
            /\ hrs_registered' = (hrs_registered \/ r = 0)
            /\ LogSend(Entry("bt_gatt_service_register", "hrs", NULL, r))
            /\ Return(p, r)
       /\ UNCHANGED <<flags, gatt, first_connection_attempted, host, locals,
                      hrs_blsc, hrm, spo2_data, spo2_registered, ccc_value,
                      args, float_value, sfloat,
                      aside>>

hrs_service_unregister(p) ==
    /\ pc[p] = "hu_host"                         \* hrs.c lines 146-153
    /\ \E r \in GattUnregisterResults(hrs_registered) :
         /\ hrs_registered' = (hrs_registered /\ r # 0)
         /\ LogSend(Entry("bt_gatt_service_unregister", "hrs", NULL, r))
         /\ Return(p, r)
    /\ UNCHANGED <<flags, gatt, first_connection_attempted, host, locals,
                   hrs_blsc, hrm, spo2_data, spo2_registered, ccc_value,
                   args, float_value, sfloat,
                   aside>>

spo2_service_register(p) ==
    /\ pc[p] = "sr_host"                         \* spo2.c lines 275-286
    /\ \E r \in GattRegisterResults(spo2_registered) :
         /\ spo2_registered' = (spo2_registered \/ r = 0)
         /\ LogSend(Entry("bt_gatt_service_register", "spo2", NULL, r))
         /\ Return(p, r)
    /\ UNCHANGED <<flags, gatt, first_connection_attempted, host, locals,
                   hrs_blsc, hrm, spo2_data, hrs_registered, ccc_value,
                   args, float_value, sfloat,
                   aside>>

spo2_service_unregister(p) ==
    /\ pc[p] = "su_host"                         \* spo2.c lines 293-300
    /\ \E r \in GattUnregisterResults(spo2_registered) :
         /\ spo2_registered' = (spo2_registered /\ r # 0)
         /\ ccc_value' = IF r = 0 THEN UnregisteredCcc ELSE ccc_value
         /\ LogSend(Entry("bt_gatt_service_unregister", "spo2", NULL, r))
         /\ Return(p, r)
    /\ UNCHANGED <<flags, gatt, first_connection_attempted, host, locals,
                   hrs_blsc, hrm, spo2_data, hrs_registered, args,
                   float_value, sfloat,
                   aside>>

\* part_006 lines 45-47, 76-78: what an unknown identifier is answered with
UnknownService_Ignored == 0

UnknownService == -EINVAL

gatt_service_register(p) ==
    \/ /\ pc[p] = "gsr_switch"                   \* part_006 lines 26-47
       /\ IF service_type = GATT_SERVICE_HRS
            THEN Call(p, "hr_set", "gsr_ret")
            ELSE IF service_type = GATT_SERVICE_SPO2
                   THEN Call(p, "sr_host", "gsr_ret")
                   ELSE Return(p, UnknownService)
       /\ NoLog
       /\ UNCHANGED <<flags, gatt, first_connection_attempted, host, locals,
                      layer>>
    \/ /\ pc[p] = "gsr_ret"                      \* lines 29-34, 38-43, 50
       /\ Return(p, err[p])
       /\ NoLog
       /\ UNCHANGED <<flags, gatt, first_connection_attempted, host, locals,
                      layer>>

gatt_service_unregister(p) ==
    \/ /\ pc[p] = "gsu_switch"                   \* part_006 lines 57-78
       /\ IF service_type = GATT_SERVICE_HRS
            THEN Call(p, "hu_host", "gsu_ret")
            ELSE IF service_type = GATT_SERVICE_SPO2
                   THEN Call(p, "su_host", "gsu_ret")
                   ELSE Return(p, UnknownService)
       /\ NoLog
       /\ UNCHANGED <<flags, gatt, first_connection_attempted, host, locals,
                      layer>>
    \/ /\ pc[p] = "gsu_ret"                      \* lines 60-65, 69-74, 81
       /\ Return(p, err[p])
       /\ NoLog
       /\ UNCHANGED <<flags, gatt, first_connection_attempted, host, locals,
                      layer>>

\* part_006 line 91: the body sensor location handed to the HRS registration
BodySensorLocation == 1

\* part_006 lines 92-95: whether a failed HRS registration ends register_all
GoesOnAfterFailure == FALSE

StopsAtFirstFailure == TRUE

gatt_services_register_all(p) ==
    \/ /\ pc[p] = "gra_hrs"                      \* part_006 line 91
       /\ service_type' = GATT_SERVICE_HRS
       /\ param' = BodySensorLocation
       /\ Call(p, "gsr_switch", "gra_hrs_ret")
       /\ NoLog
       /\ UNCHANGED <<flags, gatt, first_connection_attempted, host, locals,
                      hrs_blsc, hrm, spo2_data, table, heartrate_value,
                      spo2_value, pulse_rate, float_value, sfloat,
                      aside>>
    \/ /\ pc[p] = "gra_hrs_ret"                  \* lines 92-98
       /\ IF err[p] # 0 /\ StopsAtFirstFailure
            THEN /\ Return(p, err[p])
                 /\ UNCHANGED <<service_type, param>>
            ELSE /\ service_type' = GATT_SERVICE_SPO2
                 /\ param' = 0
                 /\ Call(p, "gsr_switch", "gra_spo2_ret")
       /\ NoLog
       /\ UNCHANGED <<flags, gatt, first_connection_attempted, host, locals,
                      hrs_blsc, hrm, spo2_data, table, heartrate_value,
                      spo2_value, pulse_rate, float_value, sfloat,
                      aside>>
    \/ /\ pc[p] = "gra_spo2_ret"                 \* lines 99-105
       /\ Return(p, IF err[p] # 0 THEN err[p] ELSE 0)
       /\ NoLog
       /\ UNCHANGED <<flags, gatt, first_connection_attempted, host, locals,
                      layer>>

\* ---- spo2.c lines 60-93: float_to_sfloat ----
\* line 72, (int16_t)value: the value itself when it fits; otherwise the
\* conversion is undefined, and a build either keeps the low 16 bits of the
\* 32-bit conversion or saturates
Wrap16(v) == ((v + 32768) % 65536) - 32768

Saturate16(v) == IF v < -32768 THEN -32768 ELSE IF v > 32767 THEN 32767 ELSE v

Int16Cast(v) ==
    IF v \in -32768..32767 THEN {v} ELSE {Wrap16(v), Saturate16(v)}

\* lines 75-79
ClampMantissa_Unclamped(m) == m

ClampMantissa(m) == IF m < -2048 THEN -2048 ELSE IF m > 2047 THEN 2047 ELSE m

\* line 86: mantissa & 0x0FFF on a two's complement int16
Mask12_Unsigned(m) == IF m < 0 THEN -m ELSE m

Mask12(m) == m % 4096

\* lines 66-92, for the argument v and the outcome m of the cast of line 72
float_to_sfloat(v, m) ==
    IF v = 0 THEN 2047                           \* 0x07FF
    ELSE Mask12(ClampMantissa(m)) + ((0 % 16) * 4096)

\* sys_put_le16
sys_put_le16(v) == <<v % 256, (v \div 256) % 256>>

\* ---- hrs.c lines 93-101: the measurement hrs_send hands to the host ----
HrsClamp_Truncating(h) == h % 256

HrsClamp(h) == IF h > 255 THEN 255 ELSE h

hrs_frame(h) == <<6, HrsClamp(h)>>

\* ---- spo2.c lines 168-213: the measurement spo2_send hands to the host --
Spo2Clamp_None(v, max) == v

Spo2Clamp(v, max) == IF v > max THEN max ELSE v

spo2_frame(s, pr) ==
    LET spo2_sfloat == float_to_sfloat(Spo2Clamp(s, 100), Spo2Clamp(s, 100))
        pr_sfloat == float_to_sfloat(Spo2Clamp(pr, 300), Spo2Clamp(pr, 300))
    IN  <<3>> \o sys_put_le16(spo2_sfloat) \o sys_put_le16(pr_sfloat)
            \o sys_put_le16(1)

\* hrs_send and spo2_send with the buffer they fill
hrs_send_hrm(p) ==
    /\ hrs_send(p)
    /\ hrm' = IF pc[p] = "hs_notify" THEN hrs_frame(heartrate_value) ELSE hrm
    /\ UNCHANGED <<hrs_blsc, spo2_data, table, args, float_value, sfloat,
                 aside>>

spo2_send_data(p) ==
    /\ spo2_send(p)
    /\ spo2_data' = IF pc[p] = "sp_send"
                      THEN spo2_frame(spo2_value, pulse_rate)
                      ELSE spo2_data
    /\ UNCHANGED <<hrs_blsc, hrm, table, args, float_value, sfloat,
                 aside>>

\* ---- the services registered, taken down and rebuilt while the radio ----
\* ---- runs (ble_init.c lines 139-145; the self-test of                  ----
\* ---- spo2_simulator.h lines 116-154)                                   ----
RegistryOps == {"gatt_service_register", "gatt_service_unregister",
                "gatt_services_register_all", "spo2_send"}

RadioOps == {"ble_enable_stack"}

GattEntry_pc ==
    [gatt_service_register |-> "gsr_switch",
     gatt_service_unregister |-> "gsu_switch",
     gatt_services_register_all |-> "gra_hrs",
     spo2_send |-> "sp_read",
     hrs_send |-> "hs_read"]

\* the body sensor locations tried, and the sample the sends carry
Params == {0, BodySensorLocation}
SampleSpo2 == 98
SamplePulse == 90

InvokeGatt(ops) ==
    /\ pc["task"] = "idle"
    /\ pc["cb"] \in CbYield
    /\ \E o \in ops :
         /\ op' = o
         /\ pc' = [pc EXCEPT !["task"] = GattEntry_pc[o]]
         /\ service_type' \in
                IF o \in {"gatt_service_register", "gatt_service_unregister"}
                  THEN ServiceTypes ELSE {0}
         /\ param' \in IF o = "gatt_service_register" THEN Params ELSE {0}
         /\ spo2_value' = IF o = "spo2_send" THEN SampleSpo2 ELSE 0
         /\ pulse_rate' = IF o = "spo2_send" THEN SamplePulse ELSE 0
         /\ heartrate_value' = IF o = "hrs_send" THEN SamplePulse ELSE 0
    /\ stack' = [stack EXCEPT !["task"] = <<"done">>]
    /\ err' = [err EXCEPT !["task"] = 0]
    /\ pre' = NoSnapshot
    /\ UNCHANGED <<wait_time, connection_timeout, conn, trace, cb_ran, flags,
                   gatt, first_connection_attempted, host, connects, calls,
                   hrs_blsc, hrm, spo2_data, table, float_value, sfloat,
                   aside>>

StartRegistry == InvokeGatt(RegistryOps)

RegistryCode(p) ==
    \/ gatt_service_register(p)
    \/ gatt_service_unregister(p)
    \/ gatt_services_register_all(p)
    \/ hrs_service_register(p)
    \/ hrs_service_unregister(p)
    \/ spo2_service_register(p)
    \/ spo2_service_unregister(p)
    \/ spo2_send_data(p)

RegistryStep ==
    /\ Runnable("task")
    /\ \/ Lifecycle("task") /\ UNCHANGED layer
       \/ RegistryCode("task")
    /\ UNCHANGED <<op, pre, cb_ran, connects, calls>>

\* the peer writes the SpO2 CCC descriptor of the registered service: the
\* host stores the value and calls the callback when the value changes
peer_writes_ccc ==
    /\ spo2_registered
    /\ spo2_ccc_cfg_changed
    /\ \E v \in 0..3 :
         /\ v # ccc_value
         /\ ccc_value' = v
         /\ notifications_enabled' = (v % 2 = 1)
         /\ indications_enabled' = (v \div 2 = 1)
    /\ UNCHANGED <<hrs_blsc, hrm, spo2_data, hrs_registered, spo2_registered,
                   args, float_value, sfloat,
                   aside>>

\* the link is gone: the host drops the peer's subscription of a registered
\* service and calls the callback with 0
host_drops_ccc ==
    /\ pc["cb"] = "idle"
    /\ link = NULL
    /\ ccc_value # 0
    /\ ccc_value' = 0
    /\ notifications_enabled' = FALSE
    /\ indications_enabled' = FALSE
    /\ UNCHANGED <<flags, hrs_current_conn, spo2_current_conn,
                   first_connection_attempted, host, pc, stack, err, locals,
                   book, connects, hrs_blsc, hrm, spo2_data, hrs_registered,
                   spo2_registered, args, float_value, sfloat,
                   aside>>

RegistryEvent ==
    /\ pc["task"] # "done"
    /\ \/ connected /\ ccc_value = 0 /\ UNCHANGED layer
       \/ disconnected /\ UNCHANGED layer
       \/ peer_writes_ccc
       \/ host_drops_ccc
    /\ CbRan
    /\ UNCHANGED calls

\* before ble_init: nothing is registered
InitRegistry ==
    /\ bt_stack_enabled = FALSE
    /\ has_connections = FALSE
    /\ led = FALSE
    /\ adv_restart_pending = FALSE
    /\ advertising_active = FALSE
    /\ hrs_current_conn = NULL
    /\ spo2_current_conn = NULL
    /\ notifications_enabled = FALSE
    /\ indications_enabled = FALSE
    /\ first_connection_attempted = FALSE
    /\ host_enabled = FALSE
    /\ host_adv = FALSE
    /\ link = NULL
    /\ pc = [p \in Procs |-> "idle"]
    /\ stack = [p \in Procs |-> <<>>]
    /\ err = [p \in Procs |-> 0]
    /\ wait_time = 0
    /\ connection_timeout = 0
    /\ conn = NULL
    /\ op = "none"
    /\ trace = <<>>
    /\ pre = NoSnapshot
    /\ cb_ran = FALSE
    /\ connects = 0
    /\ calls = 0
    /\ hrs_blsc = 0
    /\ hrm = <<0, 0>>
    /\ Aside0
    /\ spo2_data = <<0, 0, 0, 0, 0, 0, 0>>
    /\ hrs_registered = FALSE /\ spo2_registered = FALSE
    /\ ccc_value = 0
    /\ NoArgs

\* the call has returned: its caller takes the result, the arguments are gone
RetireGatt ==
    /\ pc["task"] = "done"
    /\ pc' = [pc EXCEPT !["task"] = "idle"]
    /\ err' = [err EXCEPT !["task"] = 0]
    /\ op' = "none"
    /\ trace' = <<>>
    /\ pre' = NoSnapshot
    /\ cb_ran' = FALSE
    /\ wait_time' = 0
    /\ connection_timeout' = 0
    /\ conn' = NULL
    /\ service_type' = 0 /\ param' = 0
    /\ heartrate_value' = 0 /\ spo2_value' = 0 /\ pulse_rate' = 0
    /\ UNCHANGED <<stack, flags, gatt, first_connection_attempted, host,
                   connects, calls, hrs_blsc, hrm, spo2_data, table,
                   float_value, sfloat,
                   aside>>

NextRegistry ==
    StartOp(RadioOps) \/ StartRegistry \/ RetireGatt \/ RegistryStep
        \/ CbStep \/ RegistryEvent

SpecRegistry == InitRegistry /\ [][NextRegistry]_vars

\* ---- hrs_send and spo2_send alone, for every argument and every state ----
\* ---- of the subscription flags and of the bound connection            ----
MaxHeartrate == 257
MaxSpo2Value == 101
MaxPulseRate == 301

\* uint16_t heartrate_value, uint8_t spo2_value, uint16_t pulse_rate: the
\* values up to the bound and the largest of the type
HeartRates == (0..MaxHeartrate) \cup {65535}
Spo2Values == (0..MaxSpo2Value) \cup {255}
PulseRates == (0..MaxPulseRate) \cup {65535}

SendOps == {"hrs_send", "spo2_send"}

\* the radio is enabled; a peer is connected and bound into both services,
\* or none is and the radio advertises; the task enters one of the sends
InitFrames ==
    /\ bt_stack_enabled = TRUE
    /\ led = TRUE
    /\ adv_restart_pending = FALSE
    /\ first_connection_attempted = TRUE
    /\ host_enabled = TRUE
    /\ link \in {NULL} \cup Conns
    /\ has_connections = (link # NULL)
    /\ advertising_active = (link = NULL)
    /\ host_adv = (link = NULL)
    /\ hrs_current_conn = link
    /\ spo2_current_conn = link
    /\ op \in SendOps
    /\ IF op = "spo2_send"
         THEN /\ notifications_enabled \in BOOLEAN
              /\ indications_enabled \in BOOLEAN
              /\ spo2_value \in Spo2Values
              /\ pulse_rate \in PulseRates
              /\ heartrate_value = 0
         ELSE /\ notifications_enabled = FALSE
              /\ indications_enabled = FALSE
              /\ spo2_value = 0
              /\ pulse_rate = 0
              /\ heartrate_value \in HeartRates
    /\ ccc_value = (IF notifications_enabled THEN 1 ELSE 0)
                     + (IF indications_enabled THEN 2 ELSE 0)
    /\ pc = [p \in Procs |-> IF p = "task" THEN GattEntry_pc[op] ELSE "idle"]
    /\ stack = [p \in Procs |-> IF p = "task" THEN <<"done">> ELSE <<>>]
    /\ err = [p \in Procs |-> 0]
    /\ wait_time = 0
    /\ connection_timeout = 0
    /\ conn = NULL
    /\ trace = <<>>
    /\ pre = NoSnapshot
    /\ cb_ran = FALSE
    /\ connects = IF link = NULL THEN 0 ELSE 1
    /\ calls = 0
    /\ hrs_blsc = BodySensorLocation
    /\ hrm = <<0, 0>>
    /\ Aside0
    /\ spo2_data = <<0, 0, 0, 0, 0, 0, 0>>
    /\ hrs_registered = TRUE /\ spo2_registered = TRUE
    /\ service_type = 0 /\ param = 0
    /\ float_value = 0 /\ sfloat = 0

FrameStep ==
    /\ Runnable("task")
    /\ hrs_send_hrm("task") \/ spo2_send_data("task")
    /\ UNCHANGED <<op, pre, cb_ran, connects, calls>>

NextFrames == FrameStep

SpecFrames == InitFrames /\ [][NextFrames]_vars

\* ---- float_to_sfloat alone, for every integer-valued argument ----
\* the arguments tried: every integer from -MaxFloatValue to MaxFloatValue
MaxFloatValue == 32769
FloatValues == (-MaxFloatValue)..MaxFloatValue

InitSfloat ==
    /\ bt_stack_enabled = FALSE
    /\ has_connections = FALSE
    /\ led = FALSE
    /\ adv_restart_pending = FALSE
    /\ advertising_active = FALSE
    /\ hrs_current_conn = NULL
    /\ spo2_current_conn = NULL
    /\ notifications_enabled = FALSE
    /\ indications_enabled = FALSE
    /\ first_connection_attempted = FALSE
    /\ host_enabled = FALSE
    /\ host_adv = FALSE
    /\ link = NULL
    /\ op = "float_to_sfloat"
    /\ pc = [p \in Procs |-> IF p = "task" THEN "fs_cast" ELSE "idle"]
    /\ stack = [p \in Procs |-> IF p = "task" THEN <<"done">> ELSE <<>>]
    /\ err = [p \in Procs |-> 0]
    /\ wait_time = 0
    /\ connection_timeout = 0
    /\ conn = NULL
    /\ trace = <<>>
    /\ pre = NoSnapshot
    /\ cb_ran = FALSE
    /\ connects = 0
    /\ calls = 0
    /\ hrs_blsc = BodySensorLocation
    /\ hrm = <<0, 0>>
    /\ Aside0
    /\ spo2_data = <<0, 0, 0, 0, 0, 0, 0>>
    /\ hrs_registered = TRUE /\ spo2_registered = TRUE
    /\ ccc_value = 0
    /\ service_type = 0 /\ param = 0
    /\ heartrate_value = 0 /\ spo2_value = 0 /\ pulse_rate = 0
    /\ float_value \in FloatValues
    /\ sfloat = 0

\* the call float_to_sfloat(float_value): its result is left in sfloat
SfloatStep ==
    /\ pc["task"] = "fs_cast"
    /\ \E m \in Int16Cast(float_value) :
         sfloat' = float_to_sfloat(float_value, m)
    /\ Return("task", 0)
    /\ UNCHANGED <<flags, gatt, first_connection_attempted, host, locals,
                   book, cb_ran, connects, calls, hrs_blsc, hrm, spo2_data,
                   table, args, float_value,
                   aside>>

NextSfloat == SfloatStep

SpecSfloat == InitSfloat /\ [][NextSfloat]_vars

\* ---- hrs.c: the HRS subscription and its periodic tick (the variant ----
\* ---- with the timer handler, lines 189-280; the CCC callback of the   ----
\* ---- current variant, lines 41-60, is the same)                       ----
BT_GATT_CCC_NOTIFY == 1

\* line 205: bool notif_enabled = (value == BT_GATT_CCC_NOTIFY)
notif_enabled(value) == value = BT_GATT_CCC_NOTIFY

\* the host calls hrmc_ccc_cfg_changed(attr, value) when the value it holds
\* changes: the peer of the live link wrote the descriptor, or the link is
\* gone and the host drops the subscription (value 0)
hrmc_ccc_cfg_changed_called ==
    /\ pc["cb"] = "idle"
    /\ \E value \in 0..3 :
         /\ value # hrs_ccc_value
         /\ link = NULL => value = 0
         /\ hrs_ccc_value' = value
    /\ pc' = [pc EXCEPT !["cb"] = "hc_flag"]
    /\ stack' = [stack EXCEPT !["cb"] = <<"idle">>]
    /\ UNCHANGED <<flags, gatt, first_connection_attempted, host, err, locals,
                   book, cb_ran, connects, calls, hrs_blsc, hrm, spo2_data,
                   table, args, float_value, sfloat, simulate_hrm, hrs_timer,
                   heartrate, conn_err, poll32,
                   batch>>

hrmc_ccc_cfg_changed(p) ==
    \/ /\ pc[p] = "hc_flag"                      \* lines 205-208
       /\ simulate_hrm' = IF notif_enabled(hrs_ccc_value) THEN 1 ELSE 0
       /\ Jump(p, "hc_timer")
       /\ UNCHANGED hrs_timer
    \/ /\ pc[p] = "hc_timer"                     \* lines 210-219:
       /\ hrs_timer' = notif_enabled(hrs_ccc_value)   \* k_timer_start / stop
       /\ Return(p, 0)
       /\ UNCHANGED simulate_hrm

HrsCccStep ==
    /\ hrmc_ccc_cfg_changed("cb")
    /\ UNCHANGED <<flags, gatt, first_connection_attempted, host, locals,
                   book, cb_ran, connects, calls, hrs_blsc, hrm, spo2_data,
                   table, args, float_value, sfloat, heartrate, hrs_ccc_value,
                   conn_err, poll32,
                   batch>>

Subscribed_Always(s) == TRUE

\* line 253: if (!simulate_hrm) return
Subscribed(s) == s # 0

\* lines 258-261: heartrate++, back to 90 above 160
NextHeartrate(h) == IF (h + 1) % 256 > 160 THEN 90 ELSE (h + 1) % 256

\* lines 247-280: hrs_notify, which fills hrm[2] and notifies
hrs_notify ==
    IF Subscribed(simulate_hrm)
      THEN /\ heartrate' = NextHeartrate(heartrate)
           /\ hrm' = <<6, NextHeartrate(heartrate)>>
      ELSE UNCHANGED <<heartrate, hrm>>

\* lines 195-199: the running timer expires (interrupt context, so nothing
\* interleaves with the handler) and calls hrs_notify
hrs_timer_handler ==
    /\ hrs_timer
    /\ hrs_notify
    /\ UNCHANGED <<flags, gatt, first_connection_attempted, host, pc, stack,
                   err, locals, book, cb_ran, connects, calls, hrs_blsc,
                   spo2_data, table, args, float_value, sfloat, simulate_hrm,
                   hrs_timer, hrs_ccc_value, conn_err, poll32,
                   batch>>

\* the link comes and goes; the host has dropped the old subscription before
\* it reports a new connection
HrsLinkEvent ==
    /\ pc["task"] # "done"
    /\ \/ connected_early /\ hrs_ccc_value = 0
       \/ disconnected_early
    /\ UNCHANGED <<cb_ran, calls, layer>>

NextHrsTick ==
    Boot \/ Retire \/ BootStep \/ HrsLinkEvent \/ EarlyCbStep \/ WorkRuns
        \/ WorkStep \/ hrmc_ccc_cfg_changed_called \/ HrsCccStep
        \/ hrs_timer_handler

SpecHrsTick == Init /\ [][NextHrsTick]_vars

\* ---- part_004 lines 174-195 at the full width of uint32_t: the loop ----
\* ---- of enable_and_wait while no peer ever connects                  ----
\* 2^32 = U32Thousands * 1000 + U32Rest
U32Thousands == 4294967
U32Rest == 296

MaxPolls == 3         \* the loop is entered at most this many polls before
                      \* its last one
MaxOverrun == 2       \* polls followed beyond ceil(timeout / 1000)
MaxPollSeconds == 3   \* the short timeouts: up to this many whole seconds

\* <<q, r>> for the value q * 1000 + r reduced modulo 2^32
Norm32(q, r) ==
    IF q > U32Thousands \/ (q = U32Thousands /\ r >= U32Rest)
      THEN IF r >= U32Rest
             THEN <<q - U32Thousands, r - U32Rest>>
             ELSE <<q - U32Thousands - 1, r + 1000 - U32Rest>>
      ELSE <<q, r>>

\* line 187: wait_time += 1000 on a uint32_t
Add32(w, d) == Norm32(w[1] + ((w[2] + d) \div 1000), (w[2] + d) % 1000)

\* line 180: wait_time < connection_timeout_ms
Lt32(a, b) == a[1] < b[1] \/ (a[1] = b[1] /\ a[2] < b[2])

\* ceil(connection_timeout_ms / 1000)
PollsNeeded(t) == t[1] + (IF t[2] > 0 THEN 1 ELSE 0)

\* the timeouts tried: short ones, the two the manager passes (part_004
\* lines 26, 29), and the top of the uint32_t range
Timeouts32 ==
    {<<q, r>> : q \in 0..MaxPollSeconds, r \in {0, 1, 999}}
        \cup {<<DEFAULT_CONNECTION_TIMEOUT_MS \div 1000, 0>>,
              <<FIRST_CONNECTION_TIMEOUT_MS \div 1000, 0>>}
        \cup {<<U32Thousands - 1, r>> : r \in {0, U32Rest - 1, U32Rest, 999}}
        \cup {<<U32Thousands, r>> : r \in 0..(U32Rest - 1)}

\* the iterations already executed when the loop is looked at: the counter
\* is k * 1000, which the loop reaches when (k - 1) * 1000 was below the
\* timeout
PollStarts(t) ==
    {k \in (PollsNeeded(t) - MaxPolls)..PollsNeeded(t) :
        0 <= k /\ k <= U32Thousands}

InitPoll ==
    /\ bt_stack_enabled = TRUE
    /\ has_connections = FALSE
    /\ led = TRUE
    /\ adv_restart_pending = FALSE
    /\ advertising_active = TRUE
    /\ hrs_current_conn = NULL
    /\ spo2_current_conn = NULL
    /\ notifications_enabled = FALSE
    /\ indications_enabled = FALSE
    /\ first_connection_attempted = FALSE
    /\ host_enabled = TRUE
    /\ host_adv = TRUE
    /\ link = NULL
    /\ pc = [p \in Procs |-> IF p = "task" THEN "eaw_loop" ELSE "idle"]
    /\ stack = [p \in Procs |-> IF p = "task" THEN <<"done">> ELSE <<>>]
    /\ err = [p \in Procs |-> 0]
    /\ wait_time = 0
    /\ connection_timeout = 0
    /\ conn = NULL
    /\ op = "enable_and_wait"
    /\ trace = <<>>
    /\ pre = NoSnapshot
    /\ cb_ran = FALSE
    /\ connects = 0
    /\ calls = 0
    /\ hrs_blsc = 1
    /\ hrm = <<0, 0>>
    /\ spo2_data = <<0, 0, 0, 0, 0, 0, 0>>
    /\ hrs_registered = TRUE /\ spo2_registered = TRUE
    /\ ccc_value = 0
    /\ NoArgs
    /\ simulate_hrm = 0 /\ hrs_timer = FALSE /\ heartrate = 90
    /\ hrs_ccc_value = 0
    /\ conn_err = 0
    /\ ssd_heartrate = 0 /\ ssd_spo2 = 0
    /\ timeout32 \in Timeouts32
    /\ polls \in PollStarts(timeout32)
    /\ wait32 = <<polls, 0>>

\* lines 180-195 with no connection: the loop test and the timeout return,
\* the sleep and the increment
enable_and_wait_poll32(p) ==
    \/ /\ pc[p] = "eaw_loop"
       /\ IF Lt32(wait32, timeout32)
            THEN Jump(p, "eaw_sleep")
            ELSE Return(p, EnableAndWaitTimeout)
       /\ UNCHANGED poll32
    \/ /\ pc[p] = "eaw_sleep"
       /\ polls < PollsNeeded(timeout32) + MaxOverrun
       /\ wait32' = Add32(wait32, POLL_INTERVAL_MS)
       /\ polls' = polls + 1
       /\ Jump(p, "eaw_loop")
       /\ UNCHANGED timeout32

PollStep ==
    /\ enable_and_wait_poll32("task")
    /\ UNCHANGED <<flags, gatt, first_connection_attempted, host, locals,
                   book, cb_ran, connects, calls, hrs_blsc, hrm, spo2_data,
                   table, args, float_value, sfloat, hrs_tick, conn_err,
                   batch>>

NextPoll == PollStep

SpecPoll == InitPoll /\ [][NextPoll]_vars

\* ---- ble_init.c lines 48-75: connected(conn, err) with its err ----
\* ---- argument, the host reporting failed attempts as well       ----
\* the HCI status codes of a failed attempt (uint8_t, non-zero)
HciErrs == 1..MaxHostErr

ConnectAccepted_Always(e) == TRUE

\* line 52: if (!err)
ConnectAccepted(e) == e = 0

\* the host calls connected(conn, err): with err 0 the link is up and the
\* host has stopped advertising; line 50 logs the event
connected_called ==
    /\ pc["cb"] = "idle"
    /\ host_enabled /\ host_adv /\ link = NULL
    /\ \E e \in {0} \cup HciErrs :
         /\ conn_err' = e
         /\ IF e = 0
              THEN /\ \E c \in Conns : link' = c
                   /\ host_adv' = FALSE
                   /\ connects' = IF connects < MaxConnects
                                    THEN connects + 1 ELSE connects
                   /\ UNCHANGED host_enabled
              ELSE UNCHANGED <<host, connects>>
    /\ pc' = [pc EXCEPT !["cb"] = "cn_err"]
    /\ stack' = [stack EXCEPT !["cb"] = <<"idle">>]
    /\ UNCHANGED <<flags, gatt, first_connection_attempted, err, locals,
                   book>>

\* line 52: the success path is entered only without an error
connected_entry(p) ==
    /\ pc[p] = "cn_err"
    /\ IF ConnectAccepted(conn_err)
         THEN Jump(p, "cn_flag")
         ELSE Return(p, 0)
    /\ NoLog
    /\ UNCHANGED <<flags, gatt, first_connection_attempted, host, locals>>

ConnectReported ==
    /\ pc["task"] # "done"
    /\ connected_called
    /\ CbRan
    /\ UNCHANGED <<calls, hrs_blsc, hrm, spo2_data, table, args, float_value,
                   sfloat, hrs_tick, poll32,
                   batch>>

ConnectEntry ==
    /\ Runnable("cb")
    /\ connected_entry("cb")
    /\ CbRan
    /\ UNCHANGED <<op, pre, connects, calls, layer>>

LinkEvent ==
    /\ pc["task"] # "done"
    /\ disconnected \/ spo2_ccc_cfg_changed
    /\ CbRan
    /\ UNCHANGED <<calls, layer>>

NextConnErr ==
    \/ StartOp(FlowOps) \/ Retire \/ TaskStep \/ CbStep \/ LinkEvent
    \/ ConnectReported \/ ConnectEntry

SpecConnErr == Init /\ [][NextConnErr]_vars

\* ---- part_004 lines 276-295: one batch of send_sensor_data with its ----
\* ---- arguments, from the return of ensure_connection on              ----
\* uint16_t heartrate, uint16_t spo2: heart rates up to the pulse-rate bound
\* and the largest of the type; SpO2 values around both clamps
BatchHeartRates == PulseRates
BatchSpo2 == {0, SampleSpo2, 100, 101, 255, 256, 65535}

\* line 284: (spo2 > 255) ? 255 : (uint8_t)spo2
Spo2Arg(s) == IF s > 255 THEN 255 ELSE s

\* line 279: hrs_send(heartrate); line 286: spo2_send(spo2_value, heartrate)
PulseArg_Clamped(h) == IF h > 255 THEN 255 ELSE h

PulseArg(h) == h

\* the radio is enabled; a peer is connected, bound and subscribed in some
\* way, or none is and the radio advertises; ensure_connection has returned 0
InitBatch ==
    /\ bt_stack_enabled = TRUE
    /\ led = TRUE
    /\ adv_restart_pending = FALSE
    /\ first_connection_attempted = TRUE
    /\ host_enabled = TRUE
    /\ link \in {NULL} \cup Conns
    /\ has_connections = (link # NULL)
    /\ advertising_active = (link = NULL)
    /\ host_adv = (link = NULL)
    /\ hrs_current_conn = link
    /\ spo2_current_conn = link
    /\ op = "send_sensor_data"
    /\ ccc_value \in (IF link = NULL THEN {0} ELSE 0..3)
    /\ notifications_enabled = (ccc_value % 2 = 1)
    /\ indications_enabled = (ccc_value \div 2 = 1)
    /\ ssd_heartrate \in BatchHeartRates
    /\ ssd_spo2 \in BatchSpo2
    /\ pc = [p \in Procs |-> IF p = "task" THEN "ssd_ec_ret" ELSE "idle"]
    /\ stack = [p \in Procs |-> IF p = "task" THEN <<"done">> ELSE <<>>]
    /\ err = [p \in Procs |-> 0]
    /\ wait_time = 0
    /\ connection_timeout = 0
    /\ conn = NULL
    /\ trace = <<>>
    /\ pre = NoSnapshot
    /\ cb_ran = FALSE
    /\ connects = IF link = NULL THEN 0 ELSE 1
    /\ calls = 0
    /\ hrs_blsc = BodySensorLocation
    /\ hrm = <<0, 0>>
    /\ spo2_data = <<0, 0, 0, 0, 0, 0, 0>>
    /\ hrs_registered = TRUE /\ spo2_registered = TRUE
    /\ NoArgs
    /\ simulate_hrm = 0 /\ hrs_timer = FALSE /\ heartrate = 90
    /\ hrs_ccc_value = 0
    /\ conn_err = 0
    /\ wait32 = <<0, 0>> /\ timeout32 = <<0, 0>> /\ polls = 0

\* ble_manager_send_sensor_data with the arguments it hands to the two sends
send_sensor_data_batch(p) ==
    /\ ble_manager_send_sensor_data(p)
    /\ heartrate_value' = IF pc[p] = "ssd_ec_ret" /\ err[p] = 0
                            THEN ssd_heartrate ELSE heartrate_value
    /\ spo2_value' = IF pc[p] = "ssd_spo2"
                       THEN Spo2Arg(ssd_spo2) ELSE spo2_value
    /\ pulse_rate' = IF pc[p] = "ssd_spo2"
                       THEN PulseArg(ssd_heartrate) ELSE pulse_rate
    /\ UNCHANGED <<hrs_blsc, hrm, spo2_data, table, service_type, param,
                   float_value, sfloat, aside>>

BatchStep ==
    /\ Runnable("task")
    /\ \/ send_sensor_data_batch("task")
       \/ hrs_send_hrm("task")
       \/ spo2_send_data("task")
       \/ Lifecycle("task") /\ UNCHANGED layer
    /\ UNCHANGED <<op, pre, cb_ran, connects, calls>>

NextBatch == BatchStep

SpecBatch == InitBatch /\ [][NextBatch]_vars

\* ======================= the properties checked =======================
\* the task's current call has returned: its result is in err["task"]
Returned(o) == op = o /\ pc["task"] = "done"

\* this step is context p's call of bt_disable (ble_init.c line 225)
BtDisableCalled(p) == pc[p] = "ds_bt_disable" /\ pc'[p] # "ds_bt_disable"

\* a connect callback has run to its end and no disconnect has followed
LiveConnection ==
    /\ link # NULL
    /\ has_connections
    /\ hrs_current_conn = link
    /\ spo2_current_conn = link
    /\ pc["cb"] = "idle"

\* both contexts are between calls
Quiescent == pc["task"] = "idle" /\ pc["cb"] = "idle"

\* C1: in every interleaving of send_sensor_data with the connect and
\* disconnect callbacks, no step calls bt_disable while a connection is live
\* (a connect callback has completed and no disconnect callback has followed).
C1_NoDisableUnderLiveConnection ==
    [][BtDisableCalled("task") => ~LiveConnection]_vars

\* C2: in every state between calls and callbacks, an active connection
\* implies an enabled radio: has_connections => bt_stack_enabled.
C2_ConnectionImpliesEnabled ==
    Quiescent => (ble_has_active_connections => ble_is_enabled)

\* C3: ble_disable_stack called with the radio enabled and a connection
\* present, with no callback running meanwhile, returns -EBUSY, leaves the
\* enabled, connection and advertising flags and the status LED as they were
\* and calls neither bt_le_adv_stop nor bt_disable.
C3_BusyChangesNothing ==
    (Returned("ble_disable_stack") /\ pre.enabled /\ pre.connected
       /\ ~cb_ran)
      => (err["task"] = -EBUSY /\ Snapshot = pre /\ trace = <<>>)

\* C4: ble_enable_stack called with the enabled flag clear calls bt_enable
\* and then, only after its success, bt_le_adv_start (skipped only when the
\* advertising flag was already set); it returns the result of the last host
\* call it made; after a failure the enabled flag is still clear and the LED
\* off; after success the flag is set and, unless a callback ran meanwhile,
\* the advertising flag and the LED are on.
C4_EnableOnlyOnHostSuccess ==
    (Returned("ble_enable_stack") /\ ~pre.enabled) =>
        /\ Len(trace) \in 1..2
        /\ trace[1].call = "bt_enable"
        /\ Len(trace) = 2 =>
               trace[1].res = 0 /\ trace[2].call = "bt_le_adv_start"
        /\ err["task"] = trace[Len(trace)].res
        /\ err["task"] # 0 => ~ble_is_enabled /\ ~led
        /\ err["task"] = 0 =>
               /\ Len(trace) = 2 \/ pre.advertising
               /\ ble_is_enabled
               /\ ~cb_ran => advertising_active /\ led
               /\ (~cb_ran /\ Len(trace) = 2) => host_adv

\* C4 witness: bt_enable succeeded, bt_le_adv_start failed, still Disabled
C4_AdvStartFailed ==
    /\ Returned("ble_enable_stack")
    /\ ~pre.enabled
    /\ Len(trace) = 2
    /\ trace[2].res \in HostErrs
    /\ err["task"] = trace[2].res
    /\ ~ble_is_enabled

\* C5: whenever the task can run, the HRS and the SpO2 service hold the same
\* connection reference, and it is non-null only while the link of the last
\* successful connect callback is up (no disconnect callback has followed).
C5_BoundOnlyWhileConnected ==
    pc["cb"] \in CbYield =>
        /\ hrs_current_conn = spo2_current_conn
        /\ hrs_current_conn # NULL => hrs_current_conn = link

\* C5 witness: connect, disconnect, connect: the second connection is bound
C5_BoundAgain ==
    /\ connects = 2
    /\ pc["cb"] = "idle"
    /\ hrs_current_conn # NULL
    /\ spo2_current_conn = hrs_current_conn
    /\ hrs_current_conn = link

\* C6: no step of hrs_send or spo2_send hands the host a connection handle
\* that the disconnect callback has already unbound.
C6_NoStaleHandle ==
    [][/\ (pc["task"] = "hs_notify" /\ pc'["task"] # "hs_notify"
             /\ conn # NULL) => hrs_current_conn = conn
       /\ (pc["task"] = "sp_send" /\ pc'["task"] # "sp_send"
             /\ conn # NULL /\ (indications_enabled \/ notifications_enabled))
            => spo2_current_conn = conn]_vars

\* the sends recorded for the current call, and what they handed to the host
Sent(call) == \E i \in 1..Len(trace) : trace[i].call = call

C8_StateOrder ==
    /\ (Returned("send_sensor_data") /\ err["task"] # 0) => trace = <<>>
    /\ (Returned("send_sensor_data") /\ err["task"] = 0) =>
          Sent("hrs_send") /\ Sent("spo2_send")
    /\ (op = "send_sensor_data" /\ trace # <<>>) =>
          /\ pc["task"] \notin {"ssd_start", "ssd_ec_ret"}
          /\ \A i \in 1..Len(stack["task"]) :
                 stack["task"][i] # "ssd_ec_ret"
          /\ trace[1].call = "hrs_send"
          /\ \A i \in 1..Len(trace) : trace[i].call = "spo2_send" =>
                 \E j \in 1..(i - 1) : trace[j].call = "bt_gatt_notify"
                                        /\ trace[j].svc = "hrs"

C8_ReturnOfEnsure ==
    (pc["task"] = "ssd_ec_ret" /\ pc'["task"] # "ssd_ec_ret") =>
        IF err["task"] # 0
          THEN /\ pc'["task"] = "done"
               /\ err'["task"] = err["task"]
               /\ trace' = <<>>
          ELSE pc'["task"] = "hs_read"

C8_FailureShortCircuits == []C8_StateOrder /\ [][C8_ReturnOfEnsure]_vars

\* C8 witness: the host refused to enable the radio, nothing was sent
C8_EnableErrorReturned ==
    /\ Returned("send_sensor_data")
    /\ err["task"] \in HostErrs
    /\ trace = <<>>

\* the SpO2 measurement went to the live peer in the current call
BatchSent ==
    \E i \in 1..Len(trace) :
        /\ trace[i].svc = "spo2"
        /\ trace[i].call \in {"bt_gatt_notify", "bt_gatt_indicate"}
        /\ trace[i].conn = link

C10_NoOpWhileConnected ==
    (Returned("disable_if_idle") /\ pre.connected /\ ~cb_ran) =>
        /\ err["task"] = 0
        /\ ble_is_enabled = pre.enabled
        /\ advertising_active = pre.advertising
        /\ ble_has_active_connections = pre.connected
        /\ trace = <<>>

\* C10 witness: called with the radio enabled and a peer connected
C10_CalledWhileConnected ==
    /\ Returned("disable_if_idle")
    /\ pre.connected
    /\ pre.enabled
    /\ ~cb_ran
    /\ err["task"] = 0

\* context p leaves label l in this step
Leaves(p, l) == pc[p] = l /\ pc'[p] # l

\* C11: the re-check after disable_if_idle's settle delay decides: when it
\* finds a connection (a connect callback ran during the delay) the call
\* returns 0 from there, calling neither ble_disable_stack nor the host and
\* writing no flag; ble_disable_stack is entered only when the re-check finds
\* no connection; and a directly called disable_if_idle that aborted this way
\* leaves the radio enabled for as long as that connection is up.
C11_Recheck ==
    \A p \in Procs :
        /\ Leaves(p, "dii_recheck") =>
              IF ble_has_active_connections
                THEN pc'[p] = "dii_abort"
                ELSE pc'[p] = "ds_chk_en"
        /\ Leaves(p, "dii_abort") =>
              /\ pc'[p] = Head(stack[p])
              /\ Head(stack[p]) # "idle" => err'[p] = 0
              /\ UNCHANGED <<flags, host>>
              /\ trace' = trace
        /\ (pc'[p] = "ds_chk_en" /\ pc[p] # "ds_chk_en"
              /\ Head(stack'[p]) = "dii_ret") =>
              pc[p] = "dii_recheck" /\ ~ble_has_active_connections

C11_AbortKeepsRadioOn ==
    (op = "disable_if_idle" /\ pc["task"] = "dii_abort" /\ LiveConnection) =>
        (ble_is_enabled /\ host_enabled /\ trace = <<>>)

C11_RecheckAborts == []C11_AbortKeepsRadioOn /\ [][C11_Recheck]_vars

\* C11 witness: disable_if_idle saw the radio enabled and no connection, a
\* connect callback completed during the delay, the re-check aborted
C11_ConnectedDuringDelay ==
    /\ op = "disable_if_idle"
    /\ pc["task"] = "dii_abort"
    /\ pre.enabled /\ ~pre.connected
    /\ LiveConnection
    /\ ble_is_enabled
    /\ trace = <<>>

\* a directly called enable_and_wait that found the radio enabled and a
\* connection present, with no callback running during the call
ReEntered ==
    /\ op = "enable_and_wait"
    /\ pre.enabled /\ pre.connected
    /\ ~cb_ran

\* C12: enable_and_wait called with the radio enabled and a connection
\* present returns 0 for every timeout argument (0 included) after its two
\* checks only: it never reaches the polling loop or a sleep, makes no host
\* call and leaves every flag, handle and host state as it was.
C12_ReEntryState ==
    ReEntered =>
        /\ pc["task"] \in {"eaw_chk_en", "eaw_chk_conn", "done"}
        /\ trace = <<>>
        /\ Snapshot = pre
        /\ wait_time = 0
        /\ pc["task"] = "done" => err["task"] = 0

C12_ReEntryStep ==
    (ReEntered /\ ~cb_ran') =>
        UNCHANGED <<flags, gatt, host, first_connection_attempted>>

C12_ReEntryIsNoOp == []C12_ReEntryState /\ [][C12_ReEntryStep]_vars

\* C12 witness: such a call with a timeout of 0 has returned 0
C12_ReEnteredWithZeroTimeout ==
    /\ ReEntered
    /\ connection_timeout = 0
    /\ pc["task"] = "done"
    /\ err["task"] = 0
    /\ LiveConnection

\* C13: a directly called enable_and_wait that returns -ETIMEDOUT, no
\* callback having run during the call, leaves the radio enabled and
\* advertising (the flag of ble_advertising.c and the host's advertiser).
C13_TimeoutLeavesAdvertising ==
    (Returned("enable_and_wait") /\ err["task"] = -ETIMEDOUT /\ ~cb_ran) =>
        /\ ble_is_enabled
        /\ advertising_active
        /\ host_adv

\* the task is inside enable_and_wait's wait for a connection
Waiting == pc["task"] \in {"eaw_loop", "eaw_sleep"}

\* C14 as stated: the extended timeout (60 s) is waited with only in the
\* very first call ever made; every later call that waits uses the default
\* timeout (10 s).
C14_ExtendedOnlyOnFirstCall ==
    Waiting =>
        /\ connection_timeout = FIRST_CONNECTION_TIMEOUT_MS => calls = 1
        /\ calls = 2 => connection_timeout = DEFAULT_CONNECTION_TIMEOUT_MS

\* C14 amended: ensure_connection waits with the extended timeout exactly
\* when first_connection_attempted is still clear at the moment it decides to
\* wait, and sets it then, so that every later wait of ensure_connection uses
\* the default timeout; wait_for_first_connection waits with the extended
\* timeout whatever the flag says and sets it when the wait is over; the flag
\* is never cleared.
C14_EnsureStep ==
    (pc["task"] = "ec_chk_conn" /\ pc'["task"] = "eaw_chk_en") =>
        /\ connection_timeout' =
              IF first_connection_attempted
                THEN DEFAULT_CONNECTION_TIMEOUT_MS
                ELSE FIRST_CONNECTION_TIMEOUT_MS
        /\ first_connection_attempted'

C14_FirstStep ==
    /\ (pc["task"] = "wf_es_ret" /\ pc'["task"] = "eaw_chk_en") =>
          connection_timeout' = FIRST_CONNECTION_TIMEOUT_MS
    /\ (op = "wait_for_first_connection" /\ pc'["task"] = "done") =>
          (first_connection_attempted' \/ err'["task"] \in HostErrs)

C14_NeverCleared == first_connection_attempted => first_connection_attempted'

C14_WaitState ==
    Waiting =>
        /\ connection_timeout \in {DEFAULT_CONNECTION_TIMEOUT_MS,
                                   FIRST_CONNECTION_TIMEOUT_MS}
        /\ op = "send_sensor_data" => first_connection_attempted
        /\ (op = "send_sensor_data" /\ calls = 1) =>
              connection_timeout = FIRST_CONNECTION_TIMEOUT_MS
        /\ op = "wait_for_first_connection" =>
              connection_timeout = FIRST_CONNECTION_TIMEOUT_MS

C14_LatchedTimeout ==
    /\ []C14_WaitState
    /\ [][C14_EnsureStep /\ C14_FirstStep /\ C14_NeverCleared]_vars

\* C14 witness: a later call of send_sensor_data waits with the default
\* timeout, the flag set by an earlier wait
C14_LaterCallWaitsDefault ==
    /\ calls = 2
    /\ op = "send_sensor_data"
    /\ Waiting
    /\ connection_timeout = DEFAULT_CONNECTION_TIMEOUT_MS
    /\ wait_time > 0

C15_TimeoutStep ==
    /\ (Leaves("task", "ec_eaw_ret") /\ err["task"] # 0) =>
          (pc'["task"] = "dii_chk_en" /\ Head(stack'["task"]) = "ec_timeout")
    /\ (pc'["task"] = "ec_timeout" /\ pc["task"] \notin {"ec_timeout",
                                                         "dii_abort"}) =>
          (ble_is_enabled' =>
              \/ err'["task"] \in HostErrs \cup {-EBUSY}
              \/ has_connections')
    /\ Leaves("task", "ec_timeout") =>
          (pc'["task"] = "ssd_ec_ret" /\ err'["task"] = -ETIMEDOUT)

C16_EnableFailureStep ==
    \A l \in {"eaw_es_ret", "ec_es_ret", "ec_eaw_ret", "ssd_ec_ret"} :
        (Leaves("task", l) /\ err["task"] \in HostErrs) =>
            /\ pc'["task"] = Head(stack["task"])
            /\ err'["task"] = err["task"]

C16_EnableFailurePropagates == [][C16_EnableFailureStep]_vars

\* C17: every function that called disable_if_idle and got a host failure
\* of bt_disable back (disable_if_idle from ble_disable_stack,
\* ensure_connection, send_sensor_data, wait_for_first_connection) returns
\* that same code to its caller.
C17_DisableFailureStep ==
    \A l \in {"dii_ret", "ec_timeout", "ssd_ret", "wf_timeout"} :
        (Leaves("task", l) /\ err["task"] \in HostErrs) =>
            /\ pc'["task"] = Head(stack["task"])
            /\ err'["task"] = err["task"]

C17_DisableFailurePropagates == [][C17_DisableFailureStep]_vars

\* the host has just called disconnected()
DisconnectReported ==
    link = NULL /\ pc["cb"] \in {"dc_unbind_hrs", "dce_unbind_hrs"}

\* C18: a run of the restart handler whose advertising start failed leaves
\* the item scheduled again; and, under the fairness of SpecFair, a
\* disconnect leads to advertising being active again unless a peer connects
\* first.
C18_FailedRestartRescheduled ==
    (Leaves("wq", "rw_ret") /\ err["wq"] # 0) => adv_restart_pending'

C18_RestartRetriesUntilAdvertising ==
    /\ [][C18_FailedRestartRescheduled]_vars
    /\ DisconnectReported ~> (advertising_active \/ link # NULL)

\* C19: the step that ends the body of a disconnect callback finds both
\* services unbound, leaves the advertising restart scheduled and enters the
\* idle-disable path.
C19_DisconnectStep ==
    Leaves("cb", "dc_flag") =>
        /\ hrs_current_conn = NULL /\ spo2_current_conn = NULL
        /\ adv_restart_pending'
        /\ pc'["cb"] = "dii_chk_en"

C19_DisconnectSchedulesRestart == [][C19_DisconnectStep]_vars

\* C20: whenever no call and no callback is in progress, the LED is on
\* exactly when ble_is_enabled() is true.
C20_LedShowsEnabled == Quiescent => (led <=> ble_is_enabled)

\* C21: the SpO2 subscription flags are reset on registration and on
\* disconnect: whenever no call and no callback is running, the host holds no
\* subscription of the peer (none written since the service was registered,
\* or the link is gone and the host has dropped it), and the service is
\* registered or the link is gone, notifications_enabled and
\* indications_enabled are both false, so that spo2_send transmits nothing.
C21_SubscriptionResets ==
    (/\ pc["cb"] = "idle"
     /\ pc["task"] \in {"idle", "done"}
     /\ ccc_value = 0
     /\ spo2_registered \/ link = NULL)
        => (~notifications_enabled /\ ~indications_enabled)

\* what the task's current call has handed to the host for transmission
HostSends ==
    SelectSeq(trace, LAMBDA e : e.call \in {"bt_gatt_notify",
                                            "bt_gatt_indicate"})

\* C22: spo2_send's transmission choice, for every combination of the two
\* subscription flags and of the bound connection: with neither flag set
\* nothing is sent; with indications enabled and a connection bound exactly
\* one indicate goes to that connection; with only notifications enabled
\* and a connection bound exactly one notify goes to that connection; with
\* no connection bound and a flag set exactly one broadcast notify is sent,
\* never an indicate.
C22_TransmissionChoice ==
    Returned("spo2_send") =>
        /\ (~notifications_enabled /\ ~indications_enabled)
              => HostSends = <<>>
        /\ (indications_enabled /\ spo2_current_conn # NULL)
              => HostSends = <<Entry("bt_gatt_indicate", "spo2",
                                     spo2_current_conn, 0)>>
        /\ (notifications_enabled /\ ~indications_enabled
              /\ spo2_current_conn # NULL)
              => HostSends = <<Entry("bt_gatt_notify", "spo2",
                                     spo2_current_conn, 0)>>
        /\ (spo2_current_conn = NULL
              /\ (notifications_enabled \/ indications_enabled))
              => HostSends = <<Entry("bt_gatt_notify", "spo2", NULL, 0)>>

\* C22 witness: spo2_send has returned with indications preferred and no
\* connection bound, and one broadcast notify has been sent
C22_IndicateFellBackToBroadcast ==
    /\ Returned("spo2_send")
    /\ indications_enabled /\ ~notifications_enabled
    /\ spo2_current_conn = NULL
    /\ Len(HostSends) = 1

\* the encoding the claims C23 and C24 give for an integer that fits the
\* mantissa, and the value a PLX reader takes from a 16-bit SFLOAT with
\* exponent 0 (0x07FF, 0x0800, 0x0801, 0x07FE are reserved: no value)
Sfloat(x) == IF x = 0 THEN 2047 ELSE x

Min(a, b) == IF a < b THEN a ELSE b

SfloatValue(w) ==
    IF w \in {2047, 2048, 2049, 2046} \/ w \div 4096 # 0 THEN -1
    ELSE IF w % 4096 >= 2048 THEN (w % 4096) - 4096 ELSE w % 4096

\* C23: for every spo2_value and pulse_rate the payload spo2_send builds is
\* the 7 bytes 0x03, SFLOAT(min(spo2_value, 100)) low byte first,
\* SFLOAT(min(pulse_rate, 300)) low byte first, 0x01, 0x00; a reader decodes
\* the non-zero values back, so 98 and 72 give flags 0x03, SpO2 98, PR 72
\* and status bit 0 set.
C23_PlxPayload ==
    (Returned("spo2_send") /\ HostSends # <<>>) =>
        LET s == Min(spo2_value, 100)
            pr == Min(pulse_rate, 300)
        IN  /\ spo2_data = <<3, Sfloat(s) % 256, Sfloat(s) \div 256,
                             Sfloat(pr) % 256, Sfloat(pr) \div 256, 1, 0>>
            /\ s # 0 => SfloatValue(spo2_data[2] + 256 * spo2_data[3]) = s
            /\ pr # 0 => SfloatValue(spo2_data[4] + 256 * spo2_data[5]) = pr
            /\ (spo2_data[6] + 256 * spo2_data[7]) % 2 = 1

\* C23 witness: spo2_send has sent the measurement of the arguments 255 and
\* 65535, both clamped
C23_BothClamped ==
    /\ Returned("spo2_send")
    /\ HostSends # <<>>
    /\ spo2_value = 255 /\ pulse_rate = 65535
    /\ spo2_data = <<3, 100, 0, 44, 1, 1, 0>>

\* C24: float_to_sfloat on integer-valued arguments: 0 encodes to 0x07FF;
\* every v in 1..2047 has its low 12 bits equal to v and exponent 0; every
\* v above 2047 has the mantissa 0x7FF and every v below -2048 the mantissa
\* 0x800; a negative v down to -2048 is the 12-bit two's complement of v
\* with exponent 0.
C24_SfloatEncoding ==
    Returned("float_to_sfloat") =>
        /\ float_value = 0 => sfloat = 2047
        /\ float_value \in 1..2047 =>
              (sfloat % 4096 = float_value /\ sfloat \div 4096 = 0)
        /\ float_value > 2047 => sfloat % 4096 = 2047
        /\ float_value < -2048 => sfloat % 4096 = 2048
        /\ float_value \in (-2048)..(-1) => sfloat = 4096 + float_value

\* C25: for every heartrate_value, hrs_send emits exactly one notification,
\* with the 2-byte payload 0x06, min(heartrate_value, 255), addressed to the
\* bound connection when one is bound and broadcast (no connection)
\* otherwise.
C25_HrsNotification ==
    Returned("hrs_send") =>
        /\ HostSends = <<Entry("bt_gatt_notify", "hrs", hrs_current_conn, 0)>>
        /\ hrm = <<6, Min(heartrate_value, 255)>>

\* C25 witness: hrs_send has returned after a broadcast of a clamped value
C25_ClampedBroadcast ==
    /\ Returned("hrs_send")
    /\ heartrate_value > 255
    /\ hrs_current_conn = NULL
    /\ Len(HostSends) = 1
    /\ hrm[2] = 255

\* the running registry call carries a service identifier outside the
\* enumeration
UnknownIdentifier ==
    /\ op \in {"gatt_service_register", "gatt_service_unregister"}
    /\ service_type \notin {GATT_SERVICE_HRS, GATT_SERVICE_SPO2}

\* C26, the step: gatt_service_register and gatt_service_unregister called
\* with an identifier outside {HeartRate, SpO2} return -EINVAL at once and
\* change nothing: the step that looks at the identifier is the return, and
\* it leaves the attribute table, the body sensor location, the subscription
\* flags and the bound handles as they were.
C26_UnknownStep ==
    (/\ UnknownIdentifier
     /\ pc["task"] \in {"gsr_switch", "gsu_switch"}
     /\ pc'["task"] # pc["task"])
        => /\ pc'["task"] = "done"
           /\ err'["task"] = -EINVAL
           /\ UNCHANGED <<table, hrs_blsc, trace, gatt>>

\* C26, the state: such a call has invoked no register or unregister
\* operation of a service or of the host
C26_UnknownState ==
    UnknownIdentifier =>
        /\ trace = <<>>
        /\ pc["task"] \in {"gsr_switch", "gsu_switch", "done"}
        /\ pc["task"] = "done" => err["task"] = -EINVAL

C26_UnknownServiceRejected == []C26_UnknownState /\ [][C26_UnknownStep]_vars

\* C26 witness: gatt_service_unregister(GATT_SERVICE_COUNT) has returned
\* -EINVAL with both services still registered
C26_CountRejected ==
    /\ Returned("gatt_service_unregister")
    /\ service_type = GATT_SERVICE_COUNT
    /\ err["task"] = -EINVAL
    /\ hrs_registered /\ spo2_registered

\* C27: register_all registers HeartRate first, with body sensor location
\* 0x01, and then SpO2; it returns the first host failure unchanged and does
\* not roll back: after a failed HeartRate registration SpO2 is never
\* attempted, and after a failed SpO2 registration HeartRate stays
\* registered.
C27_RegisterAllOrder ==
    Returned("gatt_services_register_all") =>
        /\ Len(trace) \in {1, 2}
        /\ \A i \in 1..Len(trace) : trace[i].call = "bt_gatt_service_register"
        /\ trace[1].svc = "hrs"
        /\ hrs_blsc = 1
        /\ trace[1].res # 0 => (Len(trace) = 1 /\ err["task"] = trace[1].res)
        /\ trace[1].res = 0 =>
              /\ Len(trace) = 2
              /\ trace[2].svc = "spo2"
              /\ err["task"] = trace[2].res
              /\ hrs_registered
              /\ trace[2].res = 0 => spo2_registered

\* C27 witness: register_all has returned the failure of the SpO2
\* registration, and HeartRate is registered
C27_PartialRegistration ==
    /\ Returned("gatt_services_register_all")
    /\ Len(trace) = 2
    /\ trace[2].res # 0
    /\ err["task"] = trace[2].res
    /\ hrs_registered /\ ~spo2_registered

\* C28 as stated: ble_manager_wait_for_first_connection returns 0 after a
\* connection and after a timeout, non-zero only when a host call of its
\* ble_enable_stack failed, sets first_connection_attempted whenever it
\* returns 0, and after a timeout the radio is disabled when it returns.
C28_FirstWaitReturn ==
    (op = "wait_for_first_connection" /\ pc["task"] # "done"
        /\ pc'["task"] = "done") =>
        /\ err'["task"] \in {0} \cup HostErrs
        /\ err'["task"] # 0 =>
              /\ pc["task"] = "wf_es_ret"
              /\ Len(trace') \in 1..2
              /\ trace'[Len(trace')].call \in {"bt_enable", "bt_le_adv_start"}
              /\ trace'[Len(trace')].res = err'["task"]
        /\ err'["task"] = 0 => first_connection_attempted'
        /\ (pc["task"] = "wf_eaw_ret" /\ err["task"] = 0) => err'["task"] = 0

C28_TimeoutRadioOff ==
    (op = "wait_for_first_connection" /\ Leaves("task", "wf_timeout")) =>
        (err'["task"] = 0 /\ ~ble_is_enabled')

C28_TimeoutStep ==
    /\ (op = "wait_for_first_connection" /\ Leaves("task", "wf_eaw_ret")
           /\ err["task"] # 0) =>
          (pc'["task"] = "dii_chk_en" /\ Head(stack'["task"]) = "wf_timeout")
    /\ (pc'["task"] = "wf_timeout" /\ pc["task"] \notin {"wf_timeout",
                                                         "dii_abort"}) =>
          (ble_is_enabled' =>
              \/ err'["task"] \in HostErrs \cup {-EBUSY}
              \/ has_connections')
    /\ Leaves("task", "wf_timeout") =>
          (pc'["task"] = "done" /\ err'["task"] = 0)

C29_ConnectReturn ==
    (pc["cb"] = "cn_bind_spo2" /\ pc'["cb"] = "idle") =>
        /\ has_connections'
        /\ ~adv_restart_pending'
        /\ ~advertising_active'
        /\ link' # NULL
        /\ hrs_current_conn' = link'
        /\ spo2_current_conn' = link'

C29_ConnectStopsAndBinds == [][C29_ConnectReturn]_vars

\* C30: from the moment the host reports a connection until it reports the
\* disconnect (the connected callback and everything up to the next
\* disconnected callback), the work queue never takes the restart item
\* (the handler is never invoked) and the handler never calls the host's
\* advertising start; nothing is pending once the callback has cancelled.
C30_NoRestartStep ==
    link # NULL =>
        /\ ~(pc["wq"] = "idle" /\ pc'["wq"] # "idle")
        /\ ~(pc["wq"] = "as_host" /\ pc'["wq"] # "as_host")

C30_NothingPending ==
    (link # NULL /\ pc["cb"] # "cne_cancel") => ~adv_restart_pending

C31_TickState ==
    pc["cb"] \notin {"hc_flag", "hc_timer"} =>
        /\ hrs_timer <=> hrs_ccc_value = BT_GATT_CCC_NOTIFY
        /\ simulate_hrm = (IF hrs_timer THEN 1 ELSE 0)

C31_TickStep ==
    /\ (simulate_hrm' # simulate_hrm \/ hrs_timer' # hrs_timer) =>
          pc["cb"] \in {"hc_flag", "hc_timer"}
    /\ (heartrate' # heartrate \/ hrm' # hrm) =>
          /\ simulate_hrm # 0
          /\ hrs_timer
          /\ heartrate' \in 90..160
          /\ hrm' = <<6, heartrate'>>

C32_TimeoutReturn ==
    (op = "enable_and_wait" /\ pc["task"] # "done" /\ pc'["task"] = "done"
        /\ err'["task"] = -ETIMEDOUT) =>
        ~(has_connections /\ link # NULL)

C32_TimeoutOnlyWithoutConnection == [][C32_TimeoutReturn]_vars

\* C33: send_sensor_data calls hrs_send and spo2_send, and these hand their
\* payload to the host, only while the connection flag is set and the radio
\* is enabled.
C33_SendIssued ==
    \/ pc["task"] = "ssd_ec_ret" /\ pc'["task"] = "hs_read"
    \/ pc["task"] = "ssd_spo2" /\ pc'["task"] = "sp_read"
    \/ Leaves("task", "hs_notify")
    \/ Leaves("task", "sp_send")

C33_SendStep ==
    (op = "send_sensor_data" /\ C33_SendIssued) =>
        (has_connections /\ ble_is_enabled)

C33_SendsOnlyWhileConnected == [][C33_SendStep]_vars

\* C34: whenever neither context is inside a call, the manager's enabled
\* flag is true exactly when the host radio is enabled.
C34_FlagTracksHost == Quiescent => (bt_stack_enabled <=> host_enabled)

\* C35: the host is asked to disable the radio only while it is on, and to
\* enable it only while it is off, whichever context makes the call.
C35_HostCallStep ==
    /\ \A p \in {"task", "cb"} : BtDisableCalled(p) => host_enabled
    /\ \A p \in {"task", "cb"} :
          (pc[p] = "es_bt_enable" /\ pc'[p] # "es_bt_enable") => ~host_enabled

C35_NoRedundantHostCall == [][C35_HostCallStep]_vars

\* C36: whenever the host radio is on and no link exists, eventually the
\* host advertises, or a link exists, or the radio is off.
C36_NeverUnreachableWithRadioOn ==
    (host_enabled /\ link = NULL) ~>
        (host_adv \/ link # NULL \/ ~host_enabled)

\* C37: with no peer, the loop of enable_and_wait never executes more than
\* ceil(connection_timeout_ms / 1000) iterations, its counter only grows
\* (it never wraps), and once the counter is no longer below the timeout the
\* call returns -ETIMEDOUT.
C37_PollCount == polls <= PollsNeeded(timeout32)

C37_PollStep ==
    /\ wait32' # wait32 => Lt32(wait32, wait32')
    /\ (pc["task"] = "eaw_loop" /\ ~Lt32(wait32, timeout32)) =>
          (pc'["task"] = "done" /\ err'["task"] = -ETIMEDOUT)

C37_PollTerminates == []C37_PollCount /\ [][C37_PollStep]_vars

\* C38: a connected callback that carries an error changes none of the
\* connection flag, the advertising flag, the pending restart and the two
\* bound handles, neither when it is entered nor when it returns, and it
\* returns at once.
C38_Lifecycle ==
    <<has_connections, advertising_active, adv_restart_pending,
      hrs_current_conn, spo2_current_conn>>

C38_ErrorStep ==
    /\ (pc["cb"] = "idle" /\ pc'["cb"] = "cn_err" /\ conn_err' # 0) =>
          UNCHANGED C38_Lifecycle
    /\ (pc["cb"] = "cn_err" /\ conn_err # 0) =>
          (pc'["cb"] = "idle" /\ UNCHANGED C38_Lifecycle)

C38_ErrorChangesNothing == [][C38_ErrorStep]_vars

\* a failed attempt was reported and the callback has returned, with the
\* device still advertising and a publication under way
C38_ErrorReturned ==
    /\ conn_err # 0 /\ pc["cb"] = "idle"
    /\ advertising_active /\ ~has_connections
    /\ pc["task"] \notin {"idle", "done"}

\* the codes float_to_sfloat can return for the integer u
C40_Codes(u) == {float_to_sfloat(u, m) : m \in Int16Cast(u)}

\* C40 as stated: float_to_sfloat is injective on the integers in
\* [-2048, 2047]: the code returned for one in-range value is returned for
\* no other in-range value.
C40_Injective ==
    (Returned("float_to_sfloat") /\ float_value \in (-2048)..2047) =>
        \A u \in (-2048)..2047 :
            u # float_value => sfloat \notin C40_Codes(u)

\* C40 amended: on the integers in [-2048, 2047] the only two different
\* values with the same code are 0 and 2047, which both give 0x07FF.
C40_InjectiveButZero ==
    (Returned("float_to_sfloat") /\ float_value \in (-2048)..2047) =>
        \A u \in (-2048)..2047 :
            (u # float_value /\ sfloat \in C40_Codes(u)) =>
                ({u, float_value} = {0, 2047} /\ sfloat = 2047)

\* C40 witness: the call has returned the code 0x0FFF for -1, which no other
\* in-range value has
C40_NegativeEncoded ==
    /\ Returned("float_to_sfloat")
    /\ float_value = -1
    /\ sfloat = 4095

\* the pulse rate a PLX payload carries: the SFLOAT of bytes 3-4 read as a
\* 12-bit two's complement mantissa with exponent 0
C39_PlxCode(d) == d[4] + 256 * d[5]

C39_PlxPulse(d) ==
    LET m == C39_PlxCode(d) % 4096
    IN  IF m >= 2048 THEN m - 4096 ELSE m

\* the batch has returned after handing both payloads to the host
C39_BatchSent ==
    /\ Returned("send_sensor_data")
    /\ err["task"] = 0
    /\ notifications_enabled \/ indications_enabled

\* C39 as stated: for every heartrate, the heart-rate byte of the HRS payload
\* of a batch equals the pulse rate encoded in the PLX payload of that batch.
C39_SameHeartRate == C39_BatchSent => hrm[2] = C39_PlxPulse(spo2_data)

\* C39 amended: the two are equal for heartrate 1..255; for heartrate 0 the
\* HRS byte is 0 and the PLX field is the reserved code 0x07FF; above 255 the
\* HRS byte is 255 and the PLX field encodes min(heartrate, 300).
C39_SameHeartRateInByteRange ==
    C39_BatchSent =>
        /\ hrm[1] = 6 /\ spo2_data[1] = 3
        /\ ssd_heartrate \in 1..255 =>
              /\ hrm[2] = ssd_heartrate
              /\ C39_PlxPulse(spo2_data) = ssd_heartrate
        /\ ssd_heartrate = 0 =>
              /\ hrm[2] = 0
              /\ C39_PlxCode(spo2_data) = 2047
        /\ ssd_heartrate > 255 =>
              /\ hrm[2] = 255
              /\ C39_PlxPulse(spo2_data) = Min(ssd_heartrate, 300)

\* C39 witness: a batch with heartrate 255 has been indicated to the
\* connected peer, both payloads carrying 255
C39_TopByteBatch ==
    /\ C39_BatchSent
    /\ link # NULL /\ indications_enabled
    /\ ssd_heartrate = 255
    /\ hrm[2] = 255
    /\ C39_PlxPulse(spo2_data) = 255

====
